---- MODULE Spec2Model ----
(***************************************************************************)
(* 03_levels_and_zones: the level / zone processing stage (src/main.py).   *)
(* One worker consumes bars of one (symbol, timeframe) partition from      *)
(* stream:clean_candles, applies level achievements and zone updates,      *)
(* forwards the bar to stream:leveled_and_updated and then waits on the    *)
(* processed_bar pub/sub channel for the rest of the pipeline.             *)
(***************************************************************************)
EXTENDS Integers, Sequences, FiniteSets, TLC

\* ------------------------------------------------------------------------
\* Program constants
\* ------------------------------------------------------------------------
SYNC_TIMEOUT_SECONDS == 5
MAX_SYNC_WAIT_SECONDS == 60

\* ------------------------------------------------------------------------
\* Bounds of the model
\* ------------------------------------------------------------------------
\* bars delivered on the input stream
MaxBars == 2
\* notifications published on the channel in one run
MaxPub == 2
\* notifications buffered in the subscription at one time
MaxChan == 2
\* seconds into a blocking read after which a late notification arrives
MidPollDelay == 2
\* highest price of a bar
MaxPrice == 3

\* ------------------------------------------------------------------------
\* The partition of this worker, and the others seen on the shared channel
\* ------------------------------------------------------------------------
Symbol == "BTCUSDT"
Timeframe == "1h"
OtherSymbol == "ETHUSDT"
OtherTimeframe == "1m"

\* A payload is the list of its ':'-separated parts (str.split(':')).
BarId(s, tf, t) == <<s, tf, "bar", ToString(t)>>
PIPELINE_RESET == <<"PIPELINE_RESET">>

\* int(parts[3]): the integer a part spells, or "ValueError".
int(p) ==
    IF \E n \in 0..(MaxBars + 2) : ToString(n) = p
    THEN CHOOSE n \in 0..(MaxBars + 2) : ToString(n) = p
    ELSE "ValueError"

\* The bars of the input stream: bar t opens where bar t-1 closed, odd bars
\* rise from 1 to 3, even bars fall from 3 to 1.
FeedBar(t) ==
    IF t % 2 = 1
    THEN [time |-> t, open |-> 1, high |-> 3, low |-> 1, close |-> 3]
    ELSE [time |-> t, open |-> 3, high |-> 3, low |-> 1, close |-> 1]

NoBar == [time |-> 0, open |-> 0, high |-> 0, low |-> 0, close |-> 0]

bar_id(b) == BarId(Symbol, Timeframe, b.time)

\* ------------------------------------------------------------------------
\* Messages of the processed_bar subscription
\* ------------------------------------------------------------------------
Msg(d) == [type |-> "message", data |-> d]

\* redis-py delivers the confirmation of pub.subscribe() as the first frame
SubscribeFrame == [type |-> "subscribe", data |-> <<"1">>]

\* What other stages may publish while the worker is at bar b: confirmations
\* of this partition's bars (the one before, b itself, the one after), of a
\* later bar of another partition, the reset sentinel and payloads that are
\* not bar ids.
Payloads(b) ==
    {BarId(Symbol, Timeframe, t) : t \in (b.time - 1)..(b.time + 1) \ {0, -1}}
        \cup {BarId(OtherSymbol, Timeframe, b.time + 1),
              BarId(Symbol, OtherTimeframe, b.time + 1)}
        \cup {PIPELINE_RESET}
        \cup {<<Symbol, Timeframe, "bar", "abc">>, <<"garbage">>}

Modes == {"running", "paused", "stopped", "nil"}

\* ------------------------------------------------------------------------
\* Zones and levels registered upstream for this partition
\* ------------------------------------------------------------------------
ZC == <<Symbol, Timeframe, "consolidation", "0">>
ZM == <<Symbol, Timeframe, "mth", "0">>
ZO == <<Symbol, Timeframe, "origin", "0">>

\* The immutable fields of the level records, in the order of their ids
\* (the order in which a tracking index returns members of equal price).
\* stop_after is the stop-tracking policy of the level: the number of
\* consecutive gains (losses) after which it leaves the index it is in.
LevelTable ==
    << [zone_id |-> ZC, name |-> "block_one", direction |-> 0, value |-> 2,
        stop_after |-> 1],
       [zone_id |-> ZC, name |-> "block_zero", direction |-> 1, value |-> 1,
        stop_after |-> 1],
       [zone_id |-> ZM, name |-> "block_one", direction |-> 1, value |-> 2,
        stop_after |-> 1],
       [zone_id |-> ZC, name |-> "block_half", direction |-> 1, value |-> 1,
        stop_after |-> 2],
       [zone_id |-> ZM, name |-> "block_zero", direction |-> 0, value |-> 1,
        stop_after |-> 1],
       [zone_id |-> ZO, name |-> "block_one", direction |-> 1, value |-> 1,
        stop_after |-> 1],
       [zone_id |-> ZO, name |-> "block_zero", direction |-> 0, value |-> 2,
        stop_after |-> 1] >>

LevelKeys == 1..Len(LevelTable)

\* The levels registered with the consolidation zone and the block_one of
\* the mth zone; a level has a record and a place in a tracking index once
\* it is registered.
RegisteredLevels == {1, 2, 3, 4}

level_id(k) == LevelTable[k].zone_id \o <<LevelTable[k].name>>

NewCounters ==
    [gains |-> 0, conseq_gain |-> 0, last_gain |-> 0,
     losses |-> 0, conseq_loss |-> 0, last_loss |-> 0,
     bl_tests |-> 0, br_tests |-> 0]

NewZone(type, direction, completion) ==
    [type |-> type, direction |-> direction, completion |-> completion,
     broken_level |-> "", level_lost |-> 0, level_lost_time |-> 0]

\* 'consolidation' in lvl.zone_id
IsConsolidationId(zid) == \E i \in 1..Len(zid) : zid[i] = "consolidation"

VARIABLES
    stream,      \* stream:clean_candles, the bars not yet delivered
    bar,         \* the bar process_bar is handling (the last one, when idle)
    pc,          \* the worker's position in process_bar / sync_with_achiever
    mode,        \* ingestion:{symbol}:status mode ("nil": field missing)
    channel,     \* messages buffered in the pub/sub subscription
    elapsed,     \* time.time() - start_time of the current wait, in seconds
    outcome,     \* exit taken by the current wait
    ret,         \* value returned by the last process_bar call
    affected,    \* affected_zone_ids of the current bar
    modified,    \* modified_levels of the current bar
    achieved,    \* (lost, gained) level ids identify_achievements returned
    pipe,        \* commands queued on the pipeline, not yet executed
    levels,      \* counters of the level records
    to_gain,     \* tracking index of the levels awaiting a gain
    to_lose,     \* tracking index of the levels awaiting a loss
    zones,       \* zone records
    out,         \* stream:leveled_and_updated, the bars forwarded
    bars_db,     \* bar records written by bar.sync_with_db
    snapshots,   \* bars logged by log_state_snapshot
    mutRuns,     \* per delivered bar: runs of the level/zone mutation logic
    crashed,     \* an exception escaped process_bar
    pubCount,    \* notifications published so far
    confPub,     \* the current bar's confirmation has been put on the channel
    atReset,     \* number of messages buffered behind the reset sentinel read
    discarded,   \* number of messages clear_stale_messages discarded for this bar
    drainedOwn,  \* the bar's confirmation was buffered at the reset and discarded
    fixture      \* the last call of a fixture generator and what it returned

workerVars ==
    <<stream, bar, pc, ret, crashed, affected, modified, achieved, pipe>>
syncVars == <<elapsed, outcome, atReset, discarded, drainedOwn>>
storeVars == <<levels, to_gain, to_lose, zones, bars_db, snapshots, mutRuns>>
envVars == <<mode, pubCount, confPub>>
vars == <<workerVars, syncVars, storeVars, envVars, channel, out, fixture>>

\* ------------------------------------------------------------------------
\* Level achievement engine
\* ------------------------------------------------------------------------
Range(s) == {s[i] : i \in 1..Len(s)}

\* The members of a set, each once, in the order the set yields them.
RECURSIVE list(_)
list(S) ==
    IF S = {} THEN <<>>
    ELSE LET x == CHOOSE y \in S : TRUE IN <<x>> \o list(S \ {x})

\* Members of a tracking index whose price lies in [low, high], by price
\* and then by id.
RECURSIVE Ordered(_)
Ordered(S) ==
    IF S = {} THEN <<>>
    ELSE LET k == CHOOSE x \in S : \A y \in S :
                      \/ LevelTable[x].value < LevelTable[y].value
                      \/ LevelTable[x].value = LevelTable[y].value /\ x <= y
         IN <<k>> \o Ordered(S \ {k})

InRange(b, k) == b.low <= LevelTable[k].value /\ LevelTable[k].value <= b.high

\* The bar closes on the side of the level that its direction favours.
Favourable(b, k) ==
    IF LevelTable[k].direction = 1 THEN b.close > LevelTable[k].value
    ELSE b.close < LevelTable[k].value

Unfavourable(b, k) ==
    IF LevelTable[k].direction = 1 THEN b.close < LevelTable[k].value
    ELSE b.close > LevelTable[k].value

\* Mutant: a touched level counts as achieved wherever the bar closes.
identify_achievements_on_touch(b, tg, tl) ==
    [lost |-> Ordered({k \in tl : InRange(b, k)}),
     gained |-> Ordered({k \in tg : InRange(b, k)})]

\* bar.identify_achievements(r): (lost_lvl_ids, gained_lvl_ids)
identify_achievements(b, tg, tl) ==
    [lost |-> Ordered({k \in tl : InRange(b, k) /\ Unfavourable(b, k)}),
     gained |-> Ordered({k \in tg : InRange(b, k) /\ Favourable(b, k)})]

\* The levels the bar touches without achieving them: retests.
Retested(b, tg, tl) ==
    LET ach == identify_achievements(b, tg, tl)
    IN {k \in tg \cup tl : InRange(b, k)}
          \ (Range(ach.lost) \cup Range(ach.gained))

\* A retest counts on the side the bar came from: bl from below, br from
\* above.
record_test(c, b, k) ==
    IF b.open < LevelTable[k].value
    THEN [c EXCEPT !.bl_tests = @ + 1]
    ELSE [c EXCEPT !.br_tests = @ + 1]

\* Level records after the classification of the bar's candidates.
record_tests(b, lv, tg, tl) ==
    [k \in DOMAIN lv |->
        IF k \in Retested(b, tg, tl) THEN record_test(lv[k], b, k) ELSE lv[k]]

record_loss(c, current_time) ==
    [c EXCEPT !.losses = @ + 1, !.conseq_loss = @ + 1, !.conseq_gain = 0,
              !.last_loss = current_time]

record_gain(c, current_time) ==
    [c EXCEPT !.gains = @ + 1, !.conseq_gain = @ + 1, !.conseq_loss = 0,
              !.last_gain = current_time]

should_stop_tracking_losses(k, c) == c.conseq_loss >= LevelTable[k].stop_after
should_stop_tracking_gains(k, c) == c.conseq_gain >= LevelTable[k].stop_after

\* A command queued on the pipeline.
Write(op, key, val) == [op |-> op, key |-> key, val |-> val]

\* Mutant: the breakout completes the consolidation zone.
_handle_consolidation_level_loss_completes(k, loss_time, zs) ==
    LET zid == LevelTable[k].zone_id
        name == LevelTable[k].name
    IN IF zid \notin DOMAIN zs THEN <<>>
       ELSE IF zs[zid].completion # "confirmed" THEN <<>>
       ELSE IF name = "block_zero"
            THEN << Write("zone", zid,
                          [zs[zid] EXCEPT !.direction = 0,
                                          !.broken_level = "support",
                                          !.level_lost = 1,
                                          !.level_lost_time = loss_time,
                                          !.completion = "complete"]) >>
       ELSE IF name = "block_one"
            THEN << Write("zone", zid,
                          [zs[zid] EXCEPT !.direction = 1,
                                          !.broken_level = "resistance",
                                          !.level_lost = 1,
                                          !.level_lost_time = loss_time,
                                          !.completion = "complete"]) >>
       ELSE <<>>

\* Mutant: the loss of any block of the zone is a breakout; block_half
\* breaks the support.
_handle_consolidation_level_loss_any_block(k, loss_time, zs) ==
    LET zid == LevelTable[k].zone_id
        name == LevelTable[k].name
    IN IF zid \notin DOMAIN zs THEN <<>>
       ELSE IF zs[zid].completion # "confirmed" THEN <<>>
       ELSE IF name = "block_one"
            THEN << Write("zone", zid,
                          [zs[zid] EXCEPT !.direction = 1,
                                          !.broken_level = "resistance",
                                          !.level_lost = 1,
                                          !.level_lost_time = loss_time]) >>
       ELSE << Write("zone", zid,
                     [zs[zid] EXCEPT !.direction = 0,
                                     !.broken_level = "support",
                                     !.level_lost = 1,
                                     !.level_lost_time = loss_time]) >>

\* Mutant: the breakout is recorded whatever the completion of the zone.
_handle_consolidation_level_loss_any_completion(k, loss_time, zs) ==
    LET zid == LevelTable[k].zone_id
        name == LevelTable[k].name
    IN IF zid \notin DOMAIN zs THEN <<>>
       ELSE IF name = "block_zero"
            THEN << Write("zone", zid,
                          [zs[zid] EXCEPT !.direction = 0,
                                          !.broken_level = "support",
                                          !.level_lost = 1,
                                          !.level_lost_time = loss_time]) >>
       ELSE IF name = "block_one"
            THEN << Write("zone", zid,
                          [zs[zid] EXCEPT !.direction = 1,
                                          !.broken_level = "resistance",
                                          !.level_lost = 1,
                                          !.level_lost_time = loss_time]) >>
       ELSE <<>>

\* Mutant: the two breakout directions are exchanged.
_handle_consolidation_level_loss_swapped(k, loss_time, zs) ==
    LET zid == LevelTable[k].zone_id
        name == LevelTable[k].name
    IN IF zid \notin DOMAIN zs THEN <<>>
       ELSE IF zs[zid].completion # "confirmed" THEN <<>>
       ELSE IF name = "block_zero"
            THEN << Write("zone", zid,
                          [zs[zid] EXCEPT !.direction = 1,
                                          !.broken_level = "resistance",
                                          !.level_lost = 1,
                                          !.level_lost_time = loss_time]) >>
       ELSE IF name = "block_one"
            THEN << Write("zone", zid,
                          [zs[zid] EXCEPT !.direction = 0,
                                          !.broken_level = "support",
                                          !.level_lost = 1,
                                          !.level_lost_time = loss_time]) >>
       ELSE <<>>

\* The zone write that the loss of one level queues on the pipeline: none,
\* or the consolidation record read from the store with the breakout set.
_handle_consolidation_level_loss(k, loss_time, zs) ==
    LET zid == LevelTable[k].zone_id
        name == LevelTable[k].name
    IN IF zid \notin DOMAIN zs THEN <<>>
       ELSE IF zs[zid].completion # "confirmed" THEN <<>>
       ELSE IF name = "block_zero"
            THEN << Write("zone", zid,
                          [zs[zid] EXCEPT !.direction = 0,
                                          !.broken_level = "support",
                                          !.level_lost = 1,
                                          !.level_lost_time = loss_time]) >>
       ELSE IF name = "block_one"
            THEN << Write("zone", zid,
                          [zs[zid] EXCEPT !.direction = 1,
                                          !.broken_level = "resistance",
                                          !.level_lost = 1,
                                          !.level_lost_time = loss_time]) >>
       ELSE <<>>

\* The loop over lost_levels: the level's record with the loss, then the
\* breakout of its consolidation zone.
RECURSIVE QueueLosses(_, _, _, _)
QueueLosses(lost, current_time, lv, zs) ==
    IF lost = <<>> THEN <<>>
    ELSE LET k == Head(lost)
         IN << Write("level", k, record_loss(lv[k], current_time)) >>
            \o (IF IsConsolidationId(LevelTable[k].zone_id)
                THEN _handle_consolidation_level_loss(k, current_time, zs)
                ELSE <<>>)
            \o QueueLosses(Tail(lost), current_time, lv, zs)

\* The loop over gained_levels.
RECURSIVE QueueGains(_, _, _)
QueueGains(gained, current_time, lv) ==
    IF gained = <<>> THEN <<>>
    ELSE << Write("level", Head(gained),
                  record_gain(lv[Head(gained)], current_time)) >>
         \o QueueGains(Tail(gained), current_time, lv)

\* Mutant: the second loop runs over all the modified levels.
record_level_events_gain_all(ach, current_time, lv, zs) ==
    QueueLosses(ach.lost, current_time, lv, zs)
       \o QueueGains(ach.lost \o ach.gained, current_time, lv)

\* Mutant: a gain is recorded only for the first gained level.
record_level_events_first_gain(ach, current_time, lv, zs) ==
    QueueLosses(ach.lost, current_time, lv, zs)
       \o QueueGains(IF ach.gained = <<>> THEN <<>> ELSE <<Head(ach.gained)>>,
                     current_time, lv)

\* The writes record_level_events queues for the fetched levels.
record_level_events(ach, current_time, lv, zs) ==
    QueueLosses(ach.lost, current_time, lv, zs)
       \o QueueGains(ach.gained, current_time, lv)

\* lvl.transfer_tracking(pipe, symbol, timeframe, from, to, flag): the move
\* is queued if the flag is set.
transfer_tracking(k, from, to, flag) ==
    IF flag THEN << Write("move", k, <<from, to>>) >> ELSE <<>>

RECURSIVE MoveLosses(_, _, _)
MoveLosses(lost, current_time, lv) ==
    IF lost = <<>> THEN <<>>
    ELSE LET k == Head(lost)
         IN transfer_tracking(k, "to_lose", "to_gain",
               should_stop_tracking_losses(k, record_loss(lv[k], current_time)))
            \o MoveLosses(Tail(lost), current_time, lv)

RECURSIVE MoveGains(_, _, _)
MoveGains(gained, current_time, lv) ==
    IF gained = <<>> THEN <<>>
    ELSE LET k == Head(gained)
         IN transfer_tracking(k, "to_gain", "to_lose",
               should_stop_tracking_gains(k, record_gain(lv[k], current_time)))
            \o MoveGains(Tail(gained), current_time, lv)

\* Mutant: the gained levels are not moved.
update_tracking_lists_losses_only(ach, current_time, lv) ==
    MoveLosses(ach.lost, current_time, lv)

\* Mutant: the moves are not queued.
update_tracking_lists_none(ach, current_time, lv) == <<>>

\* The moves update_tracking_lists queues, from the levels as recorded.
update_tracking_lists(ach, current_time, lv) ==
    MoveLosses(ach.lost, current_time, lv)
       \o MoveGains(ach.gained, current_time, lv)

\* Mutant: one zone id for each achieved level.
collect_affected_zones_per_level(ach) ==
    [i \in 1..Len(ach.lost \o ach.gained) |->
        LevelTable[(ach.lost \o ach.gained)[i]].zone_id]

\* zone_ids = set(); zone_ids.add(lvl.zone_id) ...; return list(zone_ids)
collect_affected_zones(ach) ==
    list({LevelTable[k].zone_id : k \in Range(ach.lost \o ach.gained)})

\* Mutant: the pipeline is built although there is no crossing.
no_achievements_never(ach) == FALSE

\* if not lost_lvl_ids and not gained_lvl_ids: return [], []
no_achievements(ach) == ach.lost = <<>> /\ ach.gained = <<>>

\* The commands process_level_achievements has queued when it calls
\* pipe.execute().
process_level_achievements(b, lv, tg, tl, zs) ==
    LET ach == identify_achievements(b, tg, tl)
    IN record_level_events(ach, b.time, lv, zs)
          \o update_tracking_lists(ach, b.time, lv)

\* The store after one command.
Apply(w, st) ==
    CASE w.op = "level" -> [st EXCEPT !.levels[w.key] = w.val]
      [] w.op = "zone" -> [st EXCEPT !.zones[w.key] = w.val]
      [] w.op = "move" ->
            IF w.val[1] = "to_lose"
            THEN [st EXCEPT !.to_lose = @ \ {w.key},
                            !.to_gain = @ \cup {w.key}]
            ELSE [st EXCEPT !.to_gain = @ \ {w.key},
                            !.to_lose = @ \cup {w.key}]

\* pipe.execute(): the queued commands are applied in order, as one batch.
RECURSIVE pipe_execute(_, _)
pipe_execute(ws, st) ==
    IF ws = <<>> THEN st ELSE pipe_execute(Tail(ws), Apply(Head(ws), st))

\* ------------------------------------------------------------------------
\* Zone completion engine
\* ------------------------------------------------------------------------
\* Mutant: the block on the side of the zone's own bias.
CompletingBlock_bias(z) == IF z.direction = 1 THEN "block_zero" ELSE "block_one"

\* The block whose loss completes a zone of the given direction: the one
\* opposite its bias.
CompletingBlock(z) == IF z.direction = 1 THEN "block_one" ELSE "block_zero"

\* The level of the zone with that name was lost by the bar b.
LostNow(zid, name, b, lv) ==
    \E k \in DOMAIN lv :
        /\ LevelTable[k].zone_id = zid
        /\ LevelTable[k].name = name
        /\ lv[k].last_loss = b.time

\* A block of the zone other than the named one was lost by an earlier bar.
BrokenBefore(zid, name, b, lv) ==
    \E k \in DOMAIN lv :
        /\ LevelTable[k].zone_id = zid
        /\ LevelTable[k].name # name
        /\ lv[k].losses > 0
        /\ lv[k].last_loss < b.time

\* Mutant: an origin zone completes as an mth zone does, whichever of its
\* blocks was broken first.
post_process_zone_any_order(b, zid, z, lv) ==
    IF z.type \in {"mth", "origin"} /\ z.completion # "complete"
          /\ LostNow(zid, CompletingBlock(z), b, lv)
    THEN [z EXCEPT !.completion = "complete"]
    ELSE z

\* post_process_zone(bar, zone, r): an mth zone completes at the loss of
\* its completing block, an origin zone if that block is the first of its
\* blocks to be lost; a consolidation zone is left as it is.
post_process_zone(b, zid, z, lv) ==
    IF /\ z.type \in {"mth", "origin"}
       /\ z.completion # "complete"
       /\ LostNow(zid, CompletingBlock(z), b, lv)
       /\ z.type = "origin" => ~BrokenBefore(zid, CompletingBlock(z), b, lv)
    THEN [z EXCEPT !.completion = "complete"]
    ELSE z

process_zone_updates(b, affected_zones, zs, lv) ==
    [zid \in DOMAIN zs |->
        IF zid \in Range(affected_zones) THEN post_process_zone(b, zid, zs[zid], lv)
        ELSE zs[zid]]

\* Mutant: the value of the field is returned as it is read.
get_ingestion_mode_as_read(m) == m

\* ------------------------------------------------------------------------
\* Synchronization
\* ------------------------------------------------------------------------
get_ingestion_mode(m) == IF m = "nil" THEN "stopped" ELSE m

\* Mutant: the gate tests 'stopped' only.
gate_skips_stopped_only(m) == get_ingestion_mode(m) = "stopped"

\* if mode in ['stopped', 'paused'] at the gate of process_bar
gate_skips(m) == get_ingestion_mode(m) \in {"stopped", "paused"}

\* Mutant: the poll tests 'stopped' only.
poll_interrupts_stopped_only(m) == get_ingestion_mode(m) = "stopped"

\* if mode in ['stopped', 'paused'] at a poll of the wait
poll_interrupts(m) == get_ingestion_mode(m) \in {"stopped", "paused"}

IsInt(p) == \E n \in 0..(MaxBars + 2) : ToString(n) = p

\* Mutant: the comparison of the bar times is inverted.
newer_bar_check_inverted(data, b) ==
    IF Len(data) >= 4
    THEN IF ~IsInt(data[4]) THEN "ValueError"
         ELSE IF data[1] = Symbol /\ data[2] = Timeframe /\ int(data[4]) < b.time
              THEN "stale"
              ELSE "none"
    ELSE "none"

\* Mutant: the symbol and the timeframe of the message are not compared.
newer_bar_check_any_partition(data, b) ==
    IF Len(data) >= 4
    THEN IF ~IsInt(data[4]) THEN "ValueError"
         ELSE IF int(data[4]) > b.time
              THEN "stale"
              ELSE "none"
    ELSE "none"

\* The body of the try block: "stale" for a later bar of the same symbol
\* and timeframe, the exception it raises, or "none".
newer_bar_check(data, b) ==
    IF Len(data) >= 4
    THEN IF ~IsInt(data[4]) THEN "ValueError"
         ELSE IF data[1] = Symbol /\ data[2] = Timeframe /\ int(data[4]) > b.time
              THEN "stale"
              ELSE "none"
    ELSE "none"

\* Mutant: only IndexError is caught.
except_pass_index_only(r) == IF r = "IndexError" THEN "none" ELSE r

\* except (ValueError, IndexError): pass
except_pass(r) == IF r \in {"ValueError", "IndexError"} THEN "none" ELSE r

\* Mutant: the confirmation is matched on symbol and timeframe only.
classify_any_time(m, b) ==
    IF m.type # "message" THEN "continue"
    ELSE IF m.data = PIPELINE_RESET THEN "reset"
    ELSE IF Len(m.data) = 4 /\ m.data[1] = Symbol /\ m.data[2] = Timeframe
         THEN "confirmed"
    ELSE LET r == except_pass(newer_bar_check(m.data, b))
         IN IF r = "stale" THEN "stale"
            ELSE IF r = "none" THEN "continue"
            ELSE "raise"

\* Mutant: the reset sentinel is not recognised.
classify_no_reset(m, b) ==
    IF m.type # "message" THEN "continue"
    ELSE IF m.data = bar_id(b) THEN "confirmed"
    ELSE LET r == except_pass(newer_bar_check(m.data, b))
         IN IF r = "stale" THEN "stale"
            ELSE IF r = "none" THEN "continue"
            ELSE "raise"

\* What sync_with_achiever does with one message it read.
classify(m, b) ==
    IF m.type # "message" THEN "continue"
    ELSE IF m.data = PIPELINE_RESET THEN "reset"
    ELSE IF m.data = bar_id(b) THEN "confirmed"
    ELSE LET r == except_pass(newer_bar_check(m.data, b))
         IN IF r = "stale" THEN "stale"
            ELSE IF r = "none" THEN "continue"
            ELSE "raise"

\* ------------------------------------------------------------------------
\* The worker: main -> process_bar -> sync_with_achiever
\* ------------------------------------------------------------------------
\* Mutant: the bar is forwarded before its zones are updated and logged.
process_bar_steps_produce_first ==
    <<"levels", "store_bar", "produce", "zones", "snapshot", "sync_top">>

\* Mutant: the bar is forwarded and the next one accepted without a wait.
process_bar_steps_no_wait ==
    <<"levels", "store_bar", "zones", "snapshot", "produce", "idle">>

\* The order of the steps of process_bar after the mode gate.
process_bar_steps ==
    <<"levels", "store_bar", "zones", "snapshot", "produce", "sync_top">>

StepAfter(s) ==
    LET i == CHOOSE j \in 1..Len(process_bar_steps) : process_bar_steps[j] = s
    IN process_bar_steps[i + 1]

\* Mutant: a bar whose process_bar returned False is handed out again.
after_process_bar_retry(result, rest) ==
    IF result = "False" THEN rest ELSE Tail(rest)

\* main ignores the value process_bar returns: the consumer moves on to the
\* next delivered bar whatever it is.
after_process_bar(result, rest) == Tail(rest)

\* ------------------------------------------------------------------------
\* Fixture generators (src/fixtures/test_data_generator.py)
\* ------------------------------------------------------------------------
\* Prices are the integral floats of the source; abs(change) * 0.1 is 1.
\* Times are milliseconds; the default start_time (1700000000000) is an
\* input like any other and the generators only add offsets to it.
Timeframes == {"1m", "3m", "15m", "1h", "4h", "1d"}

\* delta_ms.get(timeframe, 3_600_000)
delta_ms(timeframe) ==
    CASE timeframe = "1m" -> 60000
      [] timeframe = "3m" -> 180000
      [] timeframe = "15m" -> 900000
      [] timeframe = "1h" -> 3600000
      [] timeframe = "4h" -> 14400000
      [] timeframe = "1d" -> 86400000
      [] OTHER -> 3600000

max(a, b) == IF a >= b THEN a ELSE b
min(a, b) == IF a <= b THEN a ELSE b

create_trending_bars(symbol, timeframe, direction, count, start_price, start_time) ==
    LET change == IF direction = 1 THEN 10 ELSE -10
        time_delta == delta_ms(timeframe)
    IN [i \in 1..count |->
          LET bar_open == start_price + (i - 1) * change
              bar_close == bar_open + change
              t == start_time + (i - 1) * time_delta
          IN [id |-> BarId(symbol, timeframe, t),
              symbol |-> symbol,
              timeframe |-> timeframe,
              time |-> t,
              open |-> bar_open,
              close |-> bar_close,
              high |-> max(bar_open, bar_close) + 1,
              low |-> min(bar_open, bar_close) - 1,
              volume |-> 1000,
              direction |-> direction]]

create_hh_pattern(symbol, timeframe, start_time) ==
    LET first == create_trending_bars(symbol, timeframe, 1, 3, 48000,
                                      start_time)
        down == first \o create_trending_bars(symbol, timeframe, 0, 2, 50000,
                           start_time + Len(first) * 3600000)
    IN down \o create_trending_bars(symbol, timeframe, 1, 3, 49000,
                  start_time + Len(down) * 3600000)

create_ll_pattern(symbol, timeframe, start_time) ==
    LET first == create_trending_bars(symbol, timeframe, 0, 3, 50000,
                                      start_time)
        up == first \o create_trending_bars(symbol, timeframe, 1, 2, 48000,
                         start_time + Len(first) * 3600000)
    IN up \o create_trending_bars(symbol, timeframe, 0, 3, 49000,
                start_time + Len(up) * 3600000)

create_lh_pattern(symbol, timeframe, start_time) ==
    LET first == create_trending_bars(symbol, timeframe, 1, 3, 47000,
                                      start_time)
        down == first \o create_trending_bars(symbol, timeframe, 0, 2, 50000,
                           start_time + Len(first) * 3600000)
    IN down \o create_trending_bars(symbol, timeframe, 1, 2, 48000,
                  start_time + Len(down) * 3600000)

\* The loop of create_origin_pattern from its i-th round on (i = 0..3):
\* two bars, rising in the even rounds, from the close of the last bar.
RECURSIVE origin_moves(_, _, _, _, _, _)
origin_moves(bars, i, symbol, timeframe, start_time, time_offset) ==
    IF i >= 4 THEN bars
    ELSE origin_moves(
            bars \o create_trending_bars(symbol, timeframe,
                        IF i % 2 = 0 THEN 1 ELSE 0, 2, bars[Len(bars)].close,
                        start_time + time_offset + i * 2 * 3600000),
            i + 1, symbol, timeframe, start_time, time_offset)

create_origin_pattern(symbol, timeframe, start_time) ==
    LET bars == create_hh_pattern(symbol, timeframe, start_time)
    IN origin_moves(bars, 0, symbol, timeframe, start_time,
                    Len(bars) * 3600000)

create_gap_sequence(symbol, timeframe, start_time) ==
    LET bars == create_trending_bars(symbol, timeframe, 1, 3, 50000,
                                     start_time)
        time_offset == Len(bars) * 3600000 + 2 * 3600000
    IN bars \o create_trending_bars(symbol, timeframe, 0, 3,
                  bars[Len(bars)].close, start_time + time_offset)

NoZoneDict ==
    [id |-> <<>>, type |-> "none", direction |-> 0, completion |-> "",
     block_zero |-> 0, block_one |-> 0]

\* (zone, bars); any zone_type other than 'mth' is an origin, whose
\* block_half no bar of the sequence comes near.
create_zone_completion_sequence(symbol, timeframe, zone_type, direction, start_time) ==
    LET zone ==
          IF zone_type = "mth"
          THEN [id |-> <<symbol, timeframe, "mth", ToString(start_time)>>,
                type |-> "mth",
                direction |-> direction,
                completion |-> "incomplete",
                block_zero |-> IF direction = 1 THEN 49500 ELSE 50500,
                block_one |-> IF direction = 1 THEN 50500 ELSE 49500]
          ELSE [id |-> <<symbol, timeframe, "origin", ToString(start_time)>>,
                type |-> "origin",
                direction |-> direction,
                completion |-> "incomplete",
                block_zero |-> IF direction = 1 THEN 50500 ELSE 49500,
                block_one |-> IF direction = 1 THEN 49500 ELSE 50500]
        target == IF direction = 1 THEN zone.block_one ELSE zone.block_zero
        cross_direction ==
          IF zone_type = "mth" THEN (IF direction = 1 THEN 1 ELSE 0)
          ELSE (IF direction = 1 THEN 0 ELSE 1)
    IN [zone |-> zone,
        bars |-> create_trending_bars(symbol, timeframe, cross_direction, 3,
                    IF cross_direction = 1 THEN target - 200 ELSE target + 200,
                    start_time + 7200000)]

NoFixture == [call |-> "none", args |-> <<>>, zone |-> NoZoneDict, bars |-> <<>>]

NoAchievements == [lost |-> <<>>, gained |-> <<>>]

TheStore == [levels |-> levels, to_gain |-> to_gain, to_lose |-> to_lose,
             zones |-> zones]

Init ==
    /\ stream = [t \in 1..MaxBars |-> FeedBar(t)]
    /\ bar = NoBar
    /\ pc = "idle"
    /\ mode \in Modes
    /\ channel = <<SubscribeFrame>>
    /\ elapsed = 0
    /\ outcome = "NONE"
    /\ ret = "none"
    /\ affected = <<>>
    /\ modified = {}
    /\ achieved = NoAchievements
    /\ pipe = <<>>
    /\ to_gain = {3, 4}
    /\ to_lose = {1, 2}
    /\ levels = [k \in RegisteredLevels |-> NewCounters]
    /\ zones = (ZC :> NewZone("consolidation", 1, "confirmed"))
                  @@ (ZM :> NewZone("mth", 1, "incomplete"))
    /\ out = <<>>
    /\ bars_db = {}
    /\ snapshots = {}
    /\ mutRuns = [t \in 1..MaxBars |-> 0]
    /\ crashed = FALSE
    /\ pubCount = 0
    /\ confPub = FALSE
    /\ atReset = 0
    /\ discarded = 0
    /\ drainedOwn = FALSE
    /\ fixture = NoFixture

\* process_bar returns v to main, which takes the bar off the stream.
Return(v) ==
    /\ ret' = v
    /\ pc' = "idle"
    /\ stream' = after_process_bar(v, stream)

\* main is handed the next bar; process_bar checks the mode gate.
Consume ==
    /\ pc = "idle"
    /\ ~crashed
    /\ stream # <<>>
    /\ bar' = Head(stream)
    /\ affected' = <<>>
    /\ modified' = {}
    /\ achieved' = NoAchievements
    /\ pipe' = <<>>
    /\ elapsed' = 0
    /\ outcome' = "NONE"
    /\ atReset' = 0
    /\ discarded' = 0
    /\ drainedOwn' = FALSE
    /\ confPub' = (Msg(bar_id(Head(stream))) \in Range(channel))
    /\ IF gate_skips(mode)
       THEN Return("False")
       ELSE /\ ret' = "none"
            /\ pc' = process_bar_steps[1]
            /\ stream' = stream
    /\ UNCHANGED <<crashed, storeVars, mode, pubCount, channel, out>>
    /\ UNCHANGED fixture

\* Step 1, process_level_achievements(bar, r) up to pipe.execute(): the
\* achievements are identified, the retests counted, and with a crossing the
\* levels are fetched and their events and moves queued; without one the
\* function returns [], [].
Levels ==
    /\ pc = "levels"
    /\ LET a == identify_achievements(bar, to_gain, to_lose)
           lv == record_tests(bar, levels, to_gain, to_lose)
       IN /\ achieved' = a
          /\ levels' = lv
          /\ IF no_achievements(a)
             THEN /\ pipe' = <<>>
                  /\ pc' = StepAfter("levels")
             ELSE /\ pipe' = process_level_achievements(bar, lv, to_gain,
                                                        to_lose, zones)
                  /\ pc' = "execute"
    /\ mutRuns' = [mutRuns EXCEPT ![bar.time] = @ + 1]
    /\ UNCHANGED <<stream, bar, ret, crashed, affected, modified, syncVars,
                   to_gain, to_lose, zones, bars_db, snapshots, envVars,
                   channel, out>>
    /\ UNCHANGED fixture

\* pipe.execute() and the return of process_level_achievements.
Execute ==
    /\ pc = "execute"
    /\ LET st == pipe_execute(pipe, TheStore)
       IN /\ levels' = st.levels
          /\ to_gain' = st.to_gain
          /\ to_lose' = st.to_lose
          /\ zones' = st.zones
    /\ pipe' = <<>>
    /\ affected' = collect_affected_zones(achieved)
    /\ modified' = Range(achieved.lost \o achieved.gained)
    /\ pc' = StepAfter("levels")
    /\ UNCHANGED <<stream, bar, ret, crashed, achieved, syncVars, bars_db,
                   snapshots, mutRuns, envVars, channel, out>>
    /\ UNCHANGED fixture

\* bar.achievements = ...; bar.sync_with_db(pipe); pipe.execute()
StoreBar ==
    /\ pc = "store_bar"
    /\ bars_db' = bars_db \cup {[id |-> bar_id(bar), achievements |-> affected]}
    /\ pc' = StepAfter("store_bar")
    /\ UNCHANGED <<stream, bar, ret, crashed, affected, modified, achieved, pipe, syncVars,
                   levels, to_gain, to_lose, zones, snapshots, mutRuns,
                   envVars, channel, out>>
    /\ UNCHANGED fixture

\* Step 2: process_zone_updates, only with affected zones
ZoneUpdates ==
    /\ pc = "zones"
    /\ zones' = IF affected # <<>>
                THEN process_zone_updates(bar, affected, zones, levels)
                ELSE zones
    /\ pc' = StepAfter("zones")
    /\ UNCHANGED <<stream, bar, ret, crashed, affected, modified, achieved, pipe, syncVars,
                   levels, to_gain, to_lose, bars_db, snapshots, mutRuns,
                   envVars, channel, out>>
    /\ UNCHANGED fixture

\* modified_zones of process_bar: the zones process_zone_updates fetched,
\* none when there is no affected zone id.
modified_zones(affected_zone_ids, zs) ==
    IF affected_zone_ids = <<>> THEN {}
    ELSE Range(affected_zone_ids) \cap DOMAIN zs

\* Mutant: the snapshot is logged for every bar.
snapshot_due_always(mz, ml) == TRUE

\* if modified_zones or modified_levels
snapshot_due(mz, ml) == mz # {} \/ ml # {}

\* log_state_snapshot, only with modified zones or levels
Snapshot ==
    /\ pc = "snapshot"
    /\ snapshots' =
          IF snapshot_due(modified_zones(affected, zones), modified)
          THEN snapshots \cup
                  {[bar |-> bar_id(bar),
                    zones |-> [z \in modified_zones(affected, zones) |->
                                 zones[z]],
                    levels |-> [k \in modified |-> levels[k]]]}
          ELSE snapshots
    /\ pc' = StepAfter("snapshot")
    /\ UNCHANGED <<stream, bar, ret, crashed, affected, modified, achieved, pipe, syncVars,
                   levels, to_gain, to_lose, zones, bars_db, mutRuns,
                   envVars, channel, out>>
    /\ UNCHANGED fixture

\* Mutant: only a bar with crossings is forwarded.
Produce_on_crossings ==
    /\ pc = "produce"
    /\ out' = IF affected = <<>> THEN out
              ELSE Append(out, [id |-> bar_id(bar), achievements |-> affected])
    /\ elapsed' = 0
    /\ outcome' = "WAITING"
    /\ pc' = StepAfter("produce")
    /\ UNCHANGED <<stream, bar, ret, crashed, affected, modified, achieved, pipe, atReset,
                   discarded, drainedOwn, storeVars, envVars, channel>>
    /\ UNCHANGED fixture

\* Step 3: produce(r, STREAM_OUT, ...); sync_with_achiever takes start_time
Produce ==
    /\ pc = "produce"
    /\ out' = Append(out, [id |-> bar_id(bar), achievements |-> affected])
    /\ elapsed' = 0
    /\ outcome' = "WAITING"
    /\ pc' = StepAfter("produce")
    /\ UNCHANGED <<stream, bar, ret, crashed, affected, modified, achieved, pipe, atReset,
                   discarded, drainedOwn, storeVars, envVars, channel>>
    /\ UNCHANGED fixture

\* Mutant: the loop has no hard ceiling.
SyncTop_no_ceiling ==
    /\ pc = "sync_top"
    /\ pc' = "sync_poll"
    /\ UNCHANGED <<stream, bar, ret, crashed, affected, modified, achieved, pipe, elapsed,
                   outcome, atReset, discarded, drainedOwn, storeVars, envVars, channel,
                   out>>
    /\ UNCHANGED fixture

\* Top of the wait loop: the hard ceiling.
SyncTop ==
    /\ pc = "sync_top"
    /\ IF elapsed > MAX_SYNC_WAIT_SECONDS
       THEN /\ outcome' = "TIMED_OUT"
            /\ pc' = "fail_drain"
       ELSE /\ outcome' = outcome
            /\ pc' = "sync_poll"
    /\ UNCHANGED <<stream, bar, ret, crashed, affected, modified, achieved, pipe, elapsed,
                   atReset, discarded, drainedOwn, storeVars, envVars, channel, out>>
    /\ UNCHANGED fixture

\* Mutant: the mode is polled after every message the loop passes over.
SyncRecv_polls_mode ==
    /\ pc = "sync_poll"
    /\ channel # <<>>
    /\ LET m == Head(channel)
           c == classify(m, bar)
           i == c = "continue" /\ poll_interrupts(mode)
       IN /\ channel' = Tail(channel)
          /\ atReset' = IF c = "reset" THEN Len(Tail(channel)) ELSE atReset
          /\ crashed' = (c = "raise")
          /\ outcome' = CASE c = "confirmed" -> "CONFIRMED"
                          [] c = "stale" -> "STALE"
                          [] i -> "MODE_INTERRUPTED"
                          [] OTHER -> outcome
          /\ IF c = "confirmed" THEN Return("True")
             ELSE /\ pc' = CASE c = "reset" -> "reset_drain"
                            [] c = "stale" -> "fail_drain"
                            [] c = "raise" -> "idle"
                            [] i -> "fail_drain"
                            [] OTHER -> "sync_top"
                  /\ UNCHANGED <<ret, stream>>
    /\ UNCHANGED <<bar, affected, modified, achieved, pipe, elapsed, discarded, drainedOwn,
                   storeVars, envVars, out>>
    /\ UNCHANGED fixture

\* pub.get_message(timeout=SYNC_TIMEOUT_SECONDS) returns a message.
SyncRecv ==
    /\ pc = "sync_poll"
    /\ channel # <<>>
    /\ LET m == Head(channel)
           c == classify(m, bar)
       IN /\ channel' = Tail(channel)
          /\ atReset' = IF c = "reset" THEN Len(Tail(channel)) ELSE atReset
          /\ crashed' = (c = "raise")
          /\ outcome' = CASE c = "confirmed" -> "CONFIRMED"
                          [] c = "stale" -> "STALE"
                          [] OTHER -> outcome
          /\ IF c = "confirmed" THEN Return("True")
             ELSE /\ pc' = CASE c = "reset" -> "reset_drain"
                            [] c = "stale" -> "fail_drain"
                            [] c = "raise" -> "idle"
                            [] OTHER -> "sync_top"
                  /\ UNCHANGED <<ret, stream>>
    /\ UNCHANGED <<bar, affected, modified, achieved, pipe, elapsed, discarded, drainedOwn,
                   storeVars, envVars, out>>
    /\ UNCHANGED fixture

\* The read times out with nothing buffered: the mode is polled.
SyncPollTimeout ==
    /\ pc = "sync_poll"
    /\ channel = <<>>
    /\ elapsed' = elapsed + SYNC_TIMEOUT_SECONDS
    /\ IF poll_interrupts(mode)
       THEN /\ outcome' = "MODE_INTERRUPTED"
            /\ pc' = "fail_drain"
       ELSE /\ outcome' = outcome
            /\ pc' = "sync_top"
    /\ UNCHANGED <<stream, bar, ret, crashed, affected, modified, achieved, pipe, atReset,
                   discarded, drainedOwn, storeVars, envVars, channel, out>>
    /\ UNCHANGED fixture

\* Mutant: clear_stale_messages gives up once the wait is past its ceiling.
drain_break_at_ceiling(ch) == ch = <<>> \/ elapsed > MAX_SYNC_WAIT_SECONDS

\* Mutant: clear_stale_messages reads once and stops.
drain_break_first(ch) == TRUE

\* clear_stale_messages stops at the first read that returns None.
drain_break(ch) == ch = <<>>

\* One read of clear_stale_messages: called by the wait on a reset, and by
\* process_bar when the wait returned False.
Drain ==
    /\ pc \in {"reset_drain", "fail_drain"}
    /\ channel' = IF channel = <<>> THEN channel ELSE Tail(channel)
    /\ discarded' = IF channel = <<>> THEN discarded ELSE discarded + 1
    /\ drainedOwn' = (drainedOwn \/ (/\ channel # <<>>
                                      /\ pc = "reset_drain"
                                      /\ discarded < atReset
                                      /\ Head(channel) = Msg(bar_id(bar))))
    /\ IF ~drain_break(channel)
       THEN UNCHANGED <<pc, outcome, ret, stream>>
       ELSE IF pc = "reset_drain"
            THEN /\ outcome' = "RESET"
                 /\ pc' = "fail_drain"
                 /\ UNCHANGED <<ret, stream>>
            ELSE /\ outcome' = outcome
                 /\ Return("False")
    /\ UNCHANGED <<bar, crashed, affected, modified, achieved, pipe, elapsed, atReset,
                   storeVars, envVars, out>>
    /\ UNCHANGED fixture

\* ------------------------------------------------------------------------
\* The environment: the other stages and the operator
\* ------------------------------------------------------------------------
\* The worker reads the channel only in the wait and in the drains, so a
\* notification sent during the store steps is one sent right after them.
Listening ==
    \/ pc = "idle" /\ stream # <<>>
    \/ pc \in {"sync_top", "sync_poll", "reset_drain", "fail_drain"}

Publish ==
    /\ Listening
    /\ pubCount < MaxPub
    /\ Len(channel) < MaxChan
    /\ \E d \in Payloads(bar) :
          /\ channel' = Append(channel, Msg(d))
          /\ confPub' = (confPub \/ d = bar_id(bar))
    /\ pubCount' = pubCount + 1
    /\ UNCHANGED <<workerVars, syncVars, storeVars, mode, out>>
    /\ UNCHANGED fixture

\* A notification reaches the subscription while the wait blocks in its read.
PublishLate ==
    /\ pc = "sync_poll"
    /\ channel = <<>>
    /\ pubCount < MaxPub
    /\ MidPollDelay < SYNC_TIMEOUT_SECONDS
    /\ \E d \in Payloads(bar) :
          /\ channel' = Append(channel, Msg(d))
          /\ confPub' = (confPub \/ d = bar_id(bar))
    /\ pubCount' = pubCount + 1
    /\ elapsed' = elapsed + MidPollDelay
    /\ UNCHANGED <<workerVars, outcome, atReset, discarded, drainedOwn,
                   storeVars, mode, out>>
    /\ UNCHANGED fixture

\* The operator changes the ingestion mode; it is read at the gate and at
\* a poll.
SetMode ==
    /\ \/ pc = "idle" /\ stream # <<>>
       \/ pc = "sync_poll"
    /\ \E m \in Modes \ {mode} : mode' = m
    /\ UNCHANGED <<workerVars, syncVars, storeVars, pubCount, confPub,
                   channel, out>>
    /\ UNCHANGED fixture

Next ==
    \/ Consume
    \/ Levels
    \/ Execute
    \/ StoreBar
    \/ ZoneUpdates
    \/ Snapshot
    \/ Produce
    \/ SyncTop
    \/ SyncRecv
    \/ SyncPollTimeout
    \/ Drain
    \/ Publish
    \/ PublishLate
    \/ SetMode

Spec == Init /\ [][Next]_vars

\* The worker alone, which runs whenever it can; time passes in its reads.
Worker ==
    \/ Consume
    \/ Levels
    \/ Execute
    \/ StoreBar
    \/ ZoneUpdates
    \/ Snapshot
    \/ Produce
    \/ SyncTop
    \/ SyncRecv
    \/ SyncPollTimeout
    \/ Drain

FairSpec == Spec /\ WF_vars(Worker)

\* Notifications of earlier deliveries still buffered on the subscription
\* when the first bar b is consumed: the subscribe frame, a late confirmation
\* of the bar before b, an id of b's partition and time that is not the
\* bar's, confirmations of later bars of other partitions, two payloads that
\* are not ids and, last, the confirmation of b itself.
Backlog(b) ==
    << SubscribeFrame,
       Msg(BarId(Symbol, Timeframe, b.time - 1)),
       Msg(<<Symbol, Timeframe, "zone", ToString(b.time)>>),
       Msg(BarId(OtherSymbol, Timeframe, b.time + 1)),
       Msg(BarId(Symbol, OtherTimeframe, b.time + 1)),
       Msg(<<Symbol, Timeframe, "bar", "abc">>),
       Msg(<<"garbage">>),
       Msg(bar_id(b)) >>

\* The worker starts behind such a backlog and nothing more is published.
WaitInit ==
    /\ stream = [t \in 1..MaxBars |-> FeedBar(t)]
    /\ bar = NoBar
    /\ pc = "idle"
    /\ mode \in Modes
    /\ channel = Backlog(FeedBar(1))
    /\ elapsed = 0
    /\ outcome = "NONE"
    /\ ret = "none"
    /\ affected = <<>>
    /\ modified = {}
    /\ achieved = NoAchievements
    /\ pipe = <<>>
    /\ to_gain = {3, 4}
    /\ to_lose = {1, 2}
    /\ levels = [k \in RegisteredLevels |-> NewCounters]
    /\ zones = (ZC :> NewZone("consolidation", 1, "confirmed"))
                  @@ (ZM :> NewZone("mth", 1, "incomplete"))
    /\ out = <<>>
    /\ bars_db = {}
    /\ snapshots = {}
    /\ mutRuns = [t \in 1..MaxBars |-> 0]
    /\ crashed = FALSE
    /\ pubCount = 0
    /\ confPub = FALSE
    /\ atReset = 0
    /\ discarded = 0
    /\ drainedOwn = FALSE
    /\ fixture = NoFixture

WaitNext ==
    \/ Worker
    \/ SetMode

WaitSpec == WaitInit /\ [][WaitNext]_vars

\* ------------------------------------------------------------------------
\* The variant of src/main_streams.py: the same steps of process_bar with
\* no mode gate, no breakout handler and a wait that only listens
\* ------------------------------------------------------------------------
\* record_level_events of main_streams.py: the losses, then the gains.
streams_record_level_events(ach, current_time, lv) ==
    [i \in 1..Len(ach.lost) |->
        Write("level", ach.lost[i], record_loss(lv[ach.lost[i]], current_time))]
       \o QueueGains(ach.gained, current_time, lv)

streams_process_level_achievements(b, lv, tg, tl) ==
    LET ach == identify_achievements(b, tg, tl)
    IN streams_record_level_events(ach, b.time, lv)
          \o update_tracking_lists(ach, b.time, lv)

\* The service starts with a reset sentinel and the confirmation of a later
\* bar of its partition already buffered on the subscription.
StreamsInit ==
    /\ stream = [t \in 1..MaxBars |-> FeedBar(t)]
    /\ bar = NoBar
    /\ pc = "idle"
    /\ mode \in Modes
    /\ channel = << SubscribeFrame, Msg(PIPELINE_RESET),
                    Msg(BarId(Symbol, Timeframe, 2)) >>
    /\ elapsed = 0
    /\ outcome = "NONE"
    /\ ret = "none"
    /\ affected = <<>>
    /\ modified = {}
    /\ achieved = NoAchievements
    /\ pipe = <<>>
    /\ to_gain = {3, 4}
    /\ to_lose = {1, 2}
    /\ levels = [k \in RegisteredLevels |-> NewCounters]
    /\ zones = (ZC :> NewZone("consolidation", 1, "confirmed"))
                  @@ (ZM :> NewZone("mth", 1, "incomplete"))
    /\ out = <<>>
    /\ bars_db = {}
    /\ snapshots = {}
    /\ mutRuns = [t \in 1..MaxBars |-> 0]
    /\ crashed = FALSE
    /\ pubCount = 0
    /\ confPub = FALSE
    /\ atReset = 0
    /\ discarded = 0
    /\ drainedOwn = FALSE
    /\ fixture = NoFixture

\* main is handed the next bar; process_bar starts on it at once.
StreamsConsume ==
    /\ pc = "idle"
    /\ stream # <<>>
    /\ bar' = Head(stream)
    /\ affected' = <<>>
    /\ modified' = {}
    /\ achieved' = NoAchievements
    /\ pipe' = <<>>
    /\ elapsed' = 0
    /\ outcome' = "NONE"
    /\ confPub' = (Msg(bar_id(Head(stream))) \in Range(channel))
    /\ ret' = "none"
    /\ pc' = process_bar_steps[1]
    /\ UNCHANGED <<stream, crashed, atReset, discarded, drainedOwn, storeVars,
                   mode, pubCount, channel, out>>
    /\ UNCHANGED fixture

\* Step 1 of main_streams.py, up to pipe.execute().
StreamsLevels ==
    /\ pc = "levels"
    /\ LET a == identify_achievements(bar, to_gain, to_lose)
           lv == record_tests(bar, levels, to_gain, to_lose)
       IN /\ achieved' = a
          /\ levels' = lv
          /\ IF no_achievements(a)
             THEN /\ pipe' = <<>>
                  /\ pc' = StepAfter("levels")
             ELSE /\ pipe' = streams_process_level_achievements(bar, lv,
                                                            to_gain, to_lose)
                  /\ pc' = "execute"
    /\ mutRuns' = [mutRuns EXCEPT ![bar.time] = @ + 1]
    /\ UNCHANGED <<stream, bar, ret, crashed, affected, modified, syncVars,
                   to_gain, to_lose, zones, bars_db, snapshots, envVars,
                   channel, out>>
    /\ UNCHANGED fixture

\* Mutant: the wait gives up on a reset sentinel.
StreamsListen_reset_ends ==
    /\ pc = "sync_top"
    /\ channel # <<>>
    /\ channel' = Tail(channel)
    /\ IF Head(channel).type = "message"
          /\ Head(channel).data \in {bar_id(bar), PIPELINE_RESET}
       THEN /\ outcome' = "CONFIRMED"
            /\ Return("None")
       ELSE UNCHANGED <<pc, outcome, ret, stream>>
    /\ UNCHANGED <<bar, crashed, affected, modified, achieved, pipe, elapsed,
                   atReset, discarded, drainedOwn, storeVars, envVars, out>>
    /\ UNCHANGED fixture

\* One message of 'for message in pub.listen()'.
StreamsListen ==
    /\ pc = "sync_top"
    /\ channel # <<>>
    /\ channel' = Tail(channel)
    /\ IF Head(channel).type = "message" /\ Head(channel).data = bar_id(bar)
       THEN /\ outcome' = "CONFIRMED"
            /\ Return("None")
       ELSE UNCHANGED <<pc, outcome, ret, stream>>
    /\ UNCHANGED <<bar, crashed, affected, modified, achieved, pipe, elapsed,
                   atReset, discarded, drainedOwn, storeVars, envVars, out>>
    /\ UNCHANGED fixture

\* pub.listen() blocks with nothing to read while time passes.
StreamsBlock ==
    /\ pc = "sync_top"
    /\ channel = <<>>
    /\ elapsed <= MAX_SYNC_WAIT_SECONDS
    /\ elapsed' = elapsed + SYNC_TIMEOUT_SECONDS
    /\ UNCHANGED <<workerVars, outcome, atReset, discarded, drainedOwn,
                   storeVars, envVars, channel, out>>
    /\ UNCHANGED fixture

StreamsNext ==
    \/ StreamsConsume
    \/ StreamsLevels
    \/ Execute
    \/ StoreBar
    \/ ZoneUpdates
    \/ Snapshot
    \/ Produce
    \/ StreamsListen
    \/ StreamsBlock
    \/ Publish
    \/ SetMode

StreamsSpec == StreamsInit /\ [][StreamsNext]_vars

\* ------------------------------------------------------------------------
\* The store side alone: any bars, any registered state, no waiting
\* ------------------------------------------------------------------------
\* The bars a feed can deliver at time t.
Bars(t) ==
    {[time |-> t, open |-> o, high |-> h, low |-> l, close |-> c] :
        <<o, h, l, c>> \in
           {q \in (0..MaxPrice) \X (0..MaxPrice) \X (0..MaxPrice) \X (0..MaxPrice) :
               /\ q[3] <= q[2]
               /\ q[4] \in q[3]..q[2]
               /\ q[1] \in {q[3], q[2]}}}

\* The zone records an upstream stage may have left: the consolidation zone
\* missing, still forming, confirmed or complete.
RegisteredZones ==
    {(ZM :> NewZone("mth", 1, "incomplete"))}
       \cup {(ZC :> NewZone("consolidation", 1, c))
                 @@ (ZM :> NewZone("mth", 1, "incomplete")) :
              c \in {"forming", "confirmed", "complete"}}

\* The levels awaiting a gain at the start: the zones' upper levels or
\* their lower ones; every other level awaits a loss.
RegisteredToGain == {{3, 4}, {1, 2}}

LevelInit ==
    /\ stream = <<>>
    /\ bar = NoBar
    /\ pc = "idle"
    /\ mode = "running"
    /\ channel = <<SubscribeFrame>>
    /\ elapsed = 0
    /\ outcome = "NONE"
    /\ ret = "none"
    /\ affected = <<>>
    /\ modified = {}
    /\ achieved = NoAchievements
    /\ pipe = <<>>
    /\ to_gain \in RegisteredToGain
    /\ to_lose = RegisteredLevels \ to_gain
    /\ levels = [k \in RegisteredLevels |-> NewCounters]
    /\ zones \in RegisteredZones
    /\ out = <<>>
    /\ bars_db = {}
    /\ snapshots = {}
    /\ mutRuns = [t \in 1..MaxBars |-> 0]
    /\ crashed = FALSE
    /\ pubCount = 0
    /\ confPub = FALSE
    /\ atReset = 0
    /\ discarded = 0
    /\ drainedOwn = FALSE
    /\ fixture = NoFixture

\* The consumer group delivers the next bar of the partition.
Deliver ==
    /\ pc = "idle"
    /\ stream = <<>>
    /\ bar.time < MaxBars
    /\ \E b \in Bars(bar.time + 1) : stream' = <<b>>
    /\ UNCHANGED <<bar, pc, ret, crashed, affected, modified, achieved, pipe,
                   syncVars, storeVars, envVars, channel, out>>
    /\ UNCHANGED fixture

\* produce(...) and the wait, whose outcome the store does not depend on:
\* process_bar returns and its locals are gone.
ProduceAndReturn ==
    /\ pc = "produce"
    /\ out' = Append(out, [id |-> bar_id(bar), achievements |-> affected])
    /\ bar' = [NoBar EXCEPT !.time = bar.time]
    /\ pc' = "idle"
    /\ stream' = after_process_bar("none", stream)
    /\ UNCHANGED <<ret, crashed, affected, modified, achieved, pipe,
                   syncVars, storeVars, envVars, channel>>
    /\ UNCHANGED fixture

LevelNext ==
    \/ Deliver
    \/ Consume
    \/ Levels
    \/ Execute
    \/ StoreBar
    \/ ZoneUpdates
    \/ Snapshot
    \/ ProduceAndReturn

LevelSpec == LevelInit /\ [][LevelNext]_vars

\* ------------------------------------------------------------------------
\* The zone completion rules: one mth or origin zone of either direction
\* with its two boundary levels, under any bars
\* ------------------------------------------------------------------------
ZoneLevels(zid) == {k \in LevelKeys : LevelTable[k].zone_id = zid}

\* The zone records an upstream stage may have created.
DirectionalZones ==
    {(ZM :> NewZone("mth", d, "incomplete")) : d \in {0, 1}}
       \cup {(ZO :> NewZone("origin", d, "incomplete")) : d \in {0, 1}}

ZoneInit ==
    /\ stream = <<>>
    /\ bar = NoBar
    /\ pc = "idle"
    /\ mode = "running"
    /\ channel = <<SubscribeFrame>>
    /\ elapsed = 0
    /\ outcome = "NONE"
    /\ ret = "none"
    /\ affected = <<>>
    /\ modified = {}
    /\ achieved = NoAchievements
    /\ pipe = <<>>
    /\ zones \in DirectionalZones
    /\ \E zid \in DOMAIN zones :
          /\ to_gain \in SUBSET ZoneLevels(zid)
          /\ to_lose = ZoneLevels(zid) \ to_gain
          /\ levels = [k \in ZoneLevels(zid) |-> NewCounters]
    /\ out = <<>>
    /\ bars_db = {}
    /\ snapshots = {}
    /\ mutRuns = [t \in 1..MaxBars |-> 0]
    /\ crashed = FALSE
    /\ pubCount = 0
    /\ confPub = FALSE
    /\ atReset = 0
    /\ discarded = 0
    /\ drainedOwn = FALSE
    /\ fixture = NoFixture

ZoneSpec == ZoneInit /\ [][LevelNext]_vars

\* ------------------------------------------------------------------------
\* The fixture generators alone, called with any of their arguments
\* ------------------------------------------------------------------------
\* bars asked of create_trending_bars in one call
MaxCount == 3

StartTimes == {0, 3600000}
StartPrices == {48000, 50000}
ZoneTypes == {"mth", "origin"}

programVars == <<workerVars, syncVars, storeVars, envVars, channel, out>>

FixtureInit ==
    /\ stream = <<>>
    /\ bar = NoBar
    /\ pc = "idle"
    /\ mode = "running"
    /\ channel = <<SubscribeFrame>>
    /\ elapsed = 0
    /\ outcome = "NONE"
    /\ ret = "none"
    /\ affected = <<>>
    /\ modified = {}
    /\ achieved = NoAchievements
    /\ pipe = <<>>
    /\ to_gain = {}
    /\ to_lose = {}
    /\ levels = <<>>
    /\ zones = <<>>
    /\ out = <<>>
    /\ bars_db = {}
    /\ snapshots = {}
    /\ mutRuns = [t \in 1..MaxBars |-> 0]
    /\ crashed = FALSE
    /\ pubCount = 0
    /\ confPub = FALSE
    /\ atReset = 0
    /\ discarded = 0
    /\ drainedOwn = FALSE
    /\ fixture = NoFixture

CallTrendingBars ==
    /\ \E tf \in Timeframes, d \in {0, 1}, n \in 0..MaxCount,
          p \in StartPrices, st \in StartTimes :
          fixture' = [call |-> "create_trending_bars",
                      args |-> <<Symbol, tf, d, n, p, st>>,
                      zone |-> NoZoneDict,
                      bars |-> create_trending_bars(Symbol, tf, d, n, p, st)]
    /\ UNCHANGED programVars

CallHhPattern ==
    /\ \E tf \in Timeframes, st \in StartTimes :
          fixture' = [call |-> "create_hh_pattern",
                      args |-> <<Symbol, tf, st>>,
                      zone |-> NoZoneDict,
                      bars |-> create_hh_pattern(Symbol, tf, st)]
    /\ UNCHANGED programVars

CallLlPattern ==
    /\ \E tf \in Timeframes, st \in StartTimes :
          fixture' = [call |-> "create_ll_pattern",
                      args |-> <<Symbol, tf, st>>,
                      zone |-> NoZoneDict,
                      bars |-> create_ll_pattern(Symbol, tf, st)]
    /\ UNCHANGED programVars

CallZoneCompletionSequence ==
    /\ \E tf \in Timeframes, zt \in ZoneTypes, d \in {0, 1},
          st \in StartTimes :
          LET res == create_zone_completion_sequence(Symbol, tf, zt, d, st)
          IN fixture' = [call |-> "create_zone_completion_sequence",
                         args |-> <<Symbol, tf, zt, d, st>>,
                         zone |-> res.zone,
                         bars |-> res.bars]
    /\ UNCHANGED programVars

CallLhPattern ==
    /\ \E tf \in Timeframes, st \in StartTimes :
          fixture' = [call |-> "create_lh_pattern",
                      args |-> <<Symbol, tf, st>>,
                      zone |-> NoZoneDict,
                      bars |-> create_lh_pattern(Symbol, tf, st)]
    /\ UNCHANGED programVars

CallOriginPattern ==
    /\ \E tf \in Timeframes, st \in StartTimes :
          fixture' = [call |-> "create_origin_pattern",
                      args |-> <<Symbol, tf, st>>,
                      zone |-> NoZoneDict,
                      bars |-> create_origin_pattern(Symbol, tf, st)]
    /\ UNCHANGED programVars

CallGapSequence ==
    /\ \E tf \in Timeframes, st \in StartTimes :
          fixture' = [call |-> "create_gap_sequence",
                      args |-> <<Symbol, tf, st>>,
                      zone |-> NoZoneDict,
                      bars |-> create_gap_sequence(Symbol, tf, st)]
    /\ UNCHANGED programVars

FixtureNext ==
    \/ CallTrendingBars
    \/ CallHhPattern
    \/ CallLlPattern
    \/ CallLhPattern
    \/ CallOriginPattern
    \/ CallGapSequence
    \/ CallZoneCompletionSequence

FixtureSpec == FixtureInit /\ [][FixtureNext]_vars

\* ------------------------------------------------------------------------
\* Properties
\* ------------------------------------------------------------------------
Waiting == pc \in {"sync_top", "sync_poll"}

Interrupted == {"RESET", "STALE", "MODE_INTERRUPTED", "TIMED_OUT"}

\* This step is a read of the wait that returns the message d.
Reads(d) ==
    /\ pc = "sync_poll"
    /\ channel # <<>>
    /\ Head(channel) = Msg(d)
    /\ channel' = Tail(channel)

\* This step ends the wait as CONFIRMED.
Confirms == outcome # "CONFIRMED" /\ outcome' = "CONFIRMED"

\* C1 (as amended): the wait returns True exactly when its loop reads a
\* notification equal to the bar's id; no other step confirms, and a read of
\* the bar's id always confirms, also when it is delivered by the read in
\* flight after the hard ceiling has passed.
C1_ConfirmedIffOwnIdRead ==
    [][ /\ Confirms <=> (outcome = "WAITING" /\ Reads(bar_id(bar)))
        /\ Confirms <=> (ret # "True" /\ ret' = "True")
        /\ Confirms => pc' = "idle" /\ ~crashed' ]_vars

C1_Witness ==
    /\ outcome = "CONFIRMED"
    /\ ret = "True"
    /\ elapsed > MAX_SYNC_WAIT_SECONDS

\* C1 (as claimed): the wait returns True exactly when the bar's id is read
\* before the hard ceiling has been exceeded.
C1_AsClaimed ==
    [][ Confirms <=> (/\ outcome = "WAITING"
                      /\ Reads(bar_id(bar))
                      /\ elapsed <= MAX_SYNC_WAIT_SECONDS) ]_vars

C3_ResetDiscardsBuffered ==
    /\ [][ Reads(PIPELINE_RESET)
             => /\ pc' = "reset_drain"
                /\ outcome' = "WAITING"
                /\ atReset' = Len(channel')
                /\ discarded' = 0
                /\ ret' = ret
                /\ ~crashed' ]_vars
    /\ [][ pc = "reset_drain"
             => /\ outcome' \in {"WAITING", "RESET"}
                /\ outcome' = "RESET" => channel = <<>> /\ discarded >= atReset
                /\ ret' = ret
                /\ ~crashed'
                /\ storeVars' = storeVars
                /\ out' = out ]_vars
    /\ [](outcome = "RESET" =>
             /\ discarded >= atReset
             /\ ret \in {"none", "False"}
             /\ pc = "idle" => ret = "False")

C3_Witness ==
    /\ outcome = "RESET"
    /\ drainedOwn
    /\ pc = "idle"
    /\ ret = "False"

\* C4: a read of a notification that names a later bar of the bar's own
\* symbol and timeframe ends the wait as STALE in that very step, with no
\* time passing, and the wait returns False.
C4_LaterBarIsStale ==
    /\ [][ \A t \in 1..(MaxBars + 2) :
              t > bar.time /\ Reads(BarId(Symbol, Timeframe, t))
                 => /\ outcome' = "STALE"
                    /\ pc' = "fail_drain"
                    /\ elapsed' = elapsed
                    /\ ~crashed' ]_vars
    /\ [](outcome = "STALE" => ret \in {"none", "False"})
    /\ [](outcome = "STALE" /\ pc = "idle" => ret = "False")

C4_Witness ==
    /\ outcome = "STALE"
    /\ pc = "idle"
    /\ ret = "False"
    /\ elapsed = 0

\* This step is a read of the wait that times out.
PollTimesOut == pc = "sync_poll" /\ channel = <<>> /\ pc' # pc

\* C5: a read that times out takes one polling interval; if the mode is then
\* paused or stopped the wait ends as MODE_INTERRUPTED (at the first poll:
\* after one interval, before the hard ceiling) and returns False, and if it
\* is running the wait goes on.
C5_ModePolledOnTimeout ==
    /\ [][ PollTimesOut
             => /\ elapsed' = elapsed + SYNC_TIMEOUT_SECONDS
                /\ mode \in {"paused", "stopped"}
                     => /\ outcome' = "MODE_INTERRUPTED"
                        /\ pc' = "fail_drain"
                        /\ elapsed = 0 => elapsed' < MAX_SYNC_WAIT_SECONDS
                /\ mode = "running"
                     => outcome' = "WAITING" /\ pc' = "sync_top" ]_vars
    /\ [](outcome = "MODE_INTERRUPTED" => ret \in {"none", "False"})
    /\ [](outcome = "MODE_INTERRUPTED" /\ pc = "idle" => ret = "False")

C5_Witness ==
    /\ outcome = "MODE_INTERRUPTED"
    /\ mode = "paused"
    /\ elapsed = SYNC_TIMEOUT_SECONDS
    /\ pc = "idle"
    /\ ret = "False"

\* This step hands the next bar of the stream to process_bar.
ConsumeStep == pc = "idle" /\ (pc' # "idle" \/ stream' # stream)

\* The bar b is on the output stream.
Forwarded(b) == \E i \in 1..Len(out) : out[i].id = bar_id(b)

\* C6 (as amended): after a bar is forwarded the next bar is accepted only
\* when the wait for it has ended: as CONFIRMED, and then its confirmation
\* was put on the channel and process_bar returned True, or as RESET, STALE,
\* MODE_INTERRUPTED or TIMED_OUT, whether or not it was ever confirmed.
C6_NextBarAfterWaitEnded ==
    /\ [][ ConsumeStep /\ Forwarded(bar)
             => /\ outcome \in {"CONFIRMED"} \cup Interrupted
                /\ outcome = "CONFIRMED" => confPub
                /\ outcome = "CONFIRMED" <=> ret = "True" ]_vars
    /\ [](Forwarded(bar) /\ outcome = "WAITING" => pc # "idle")

C6_Witness ==
    /\ bar.time = 2
    /\ pc = "levels"
    /\ Forwarded(FeedBar(1))
    /\ pubCount = 0

\* C6 (as claimed): the next bar is accepted only after the confirmation of
\* the forwarded bar has been published.
C6_AsClaimed == [][ ConsumeStep /\ Forwarded(bar) => confPub ]_vars

\* C7: the mutation logic runs at most once for each delivered bar, no
\* exception escapes, and after a wait that did not end as CONFIRMED
\* process_bar has returned False and the bar is off the stream, the worker
\* being free to take the next one.
C7_InterruptedBarNotRetried ==
    /\ \A t \in DOMAIN mutRuns : mutRuns[t] <= 1
    /\ ~crashed
    /\ outcome \in Interrupted /\ pc = "idle"
          => /\ ret = "False"
             /\ mutRuns[bar.time] = 1
             /\ stream = <<>> \/ Head(stream).time > bar.time

C7_Witness ==
    /\ bar.time = 2
    /\ outcome = "TIMED_OUT"
    /\ pc = "idle"
    /\ mutRuns[1] = 1
    /\ mutRuns[2] = 1
    /\ Len(out) = 2
    /\ pubCount = 0

\* C8: a bar handed over while the mode is stopped or paused is skipped:
\* process_bar returns False at once, the store, the output stream and the
\* channel are as before, and no wait is entered.
C8_GateSkipsBar ==
    /\ [][ ConsumeStep /\ mode \in {"stopped", "paused"}
             => /\ ret' = "False"
                /\ pc' = "idle"
                /\ outcome' = "NONE"
                /\ storeVars' = storeVars
                /\ out' = out
                /\ channel' = channel
                /\ stream' = Tail(stream) ]_vars
    /\ [](pc = "idle" /\ bar.time > 0 /\ outcome = "NONE"
             => ~Forwarded(bar) /\ mutRuns[bar.time] = 0 /\ ret = "False")

C8_Witness ==
    /\ pc = "idle"
    /\ bar.time = 2
    /\ outcome = "NONE"
    /\ ret = "False"
    /\ mode = "paused"
    /\ Len(out) = 1
    /\ mutRuns[2] = 0

\* The store holds everything process_bar writes for the bar b.
Committed(b) ==
    /\ mutRuns[b.time] = 1
    /\ \A k \in modified : b.time \in {levels[k].last_gain, levels[k].last_loss}
    /\ [id |-> bar_id(b), achievements |-> affected] \in bars_db
    /\ zones = process_zone_updates(b, affected, zones, levels)
    /\ affected # <<>> \/ modified # {}
          => \E sn \in snapshots :
                /\ sn.bar = bar_id(b)
                /\ sn.zones = [z \in Range(affected) \cap DOMAIN zones |->
                                 zones[z]]
                /\ sn.levels = [k \in modified |-> levels[k]]

\* C9: a forwarded bar has all its mutations in the store (level counters,
\* the annotated bar record, zone updates, snapshot), the forwarded record
\* carries the annotation, nothing of the store changes between the forward
\* and the end of process_bar, and the wait is entered only after it.
C9_CommitBeforeForward ==
    /\ [](Forwarded(bar) => Committed(bar))
    /\ [](Forwarded(bar) =>
             [id |-> bar_id(bar), achievements |-> affected] \in Range(out))
    /\ [](pc \in {"sync_top", "sync_poll", "reset_drain", "fail_drain"}
             => Forwarded(bar))
    /\ [][ Forwarded(bar) /\ bar' = bar => storeVars' = storeVars ]_vars

C9_Witness ==
    /\ pc = "sync_top"
    /\ bar.time = 2
    /\ Forwarded(bar)
    /\ affected # <<>>
    /\ zones[ZM].completion = "complete"

\* This step returns from process_bar after a wait.
ReturnsFromWait == pc # "idle" /\ pc' = "idle"

\* C10 (as amended): every wait that ends as RESET, STALE, MODE_INTERRUPTED
\* or TIMED_OUT is followed by clear_stale_messages, and process_bar returns
\* False from it only when a read found the channel empty; a bar skipped at
\* the mode gate discards nothing.
C10_DrainedAfterInterruptedWait ==
    /\ [][ outcome' \in Interrupted /\ outcome \notin Interrupted
             => pc' = "fail_drain" ]_vars
    /\ [][ ReturnsFromWait /\ ret' = "False"
             => outcome' \in Interrupted /\ channel' = <<>> ]_vars
    /\ [][ ConsumeStep /\ pc' = "idle" => channel' = channel ]_vars

C10_Witness ==
    /\ pc = "idle"
    /\ outcome = "STALE"
    /\ ret = "False"
    /\ discarded > 0
    /\ channel = <<>>

\* C10 (as claimed): after any interrupted outcome of process_bar, the skip
\* at the mode gate included, no notification is left buffered.
C10_AsClaimed ==
    [][ ret' = "False" /\ pc' = "idle" /\ (ReturnsFromWait \/ ConsumeStep)
          => \A i \in 1..Len(channel') : channel'[i].type # "message" ]_vars

\* ------------------------------------------------------------------------
\* Properties of the level achievement engine
\* ------------------------------------------------------------------------
\* This step is the pipe.execute() of process_level_achievements.
ExecuteStep == pc = "execute" /\ pc' # "execute"

\* This step is the classification of the bar's candidates.
IdentifyStep == pc = "levels" /\ pc' # "levels"

Achieved == Range(achieved.lost) \cup Range(achieved.gained)

\* C11: every level is in exactly one of the two tracking indices in every
\* state; the batch of a bar leaves each gained level whose consecutive gains
\* reached its stop-tracking policy in to_lose and not in to_gain, and each
\* lost level whose consecutive losses reached it in to_gain and not in
\* to_lose.
C11_ExactlyOneIndex ==
    /\ [](\A k \in DOMAIN levels : (k \in to_gain) # (k \in to_lose))
    /\ [][ ExecuteStep =>
             /\ \A k \in Range(achieved.gained) :
                   should_stop_tracking_gains(k, levels'[k])
                      => k \in to_lose' /\ k \notin to_gain'
             /\ \A k \in Range(achieved.lost) :
                   should_stop_tracking_losses(k, levels'[k])
                      => k \in to_gain' /\ k \notin to_lose' ]_vars

\* One bar gains level 3, which moves to to_lose, and level 4, whose policy
\* asks for two gains and which stays in to_gain.
C11_Witness ==
    /\ pc = "store_bar"
    /\ Range(achieved.gained) = {3, 4}
    /\ 3 \in to_lose /\ 3 \notin to_gain
    /\ levels[4].conseq_gain = 1
    /\ 4 \in to_gain

\* The bar touches level k and closes on the side that is no achievement
\* for the index k is in.
OnlyRetests(b, k) ==
    /\ InRange(b, k)
    /\ \/ k \in to_gain /\ Unfavourable(b, k)
       \/ k \in to_lose /\ Favourable(b, k)

\* The counters of the record c other than the two test counters.
AchievementCounters(c) ==
    <<c.gains, c.conseq_gain, c.last_gain, c.losses, c.conseq_loss, c.last_loss>>

\* C12: a level that the bar only retests is in neither list of
\* achievements, exactly one of its two test counters goes up by one and
\* none of its other counters changes; the batch of the bar changes neither
\* its record nor its index, and every affected zone id is the zone of an
\* achieved level.
C12_RetestOnlyCounts ==
    /\ [][ IdentifyStep =>
             \A k \in DOMAIN levels : OnlyRetests(bar, k) =>
                /\ k \notin Range(achieved'.lost) \cup Range(achieved'.gained)
                /\ AchievementCounters(levels'[k]) = AchievementCounters(levels[k])
                /\ \/ /\ levels'[k].bl_tests = levels[k].bl_tests + 1
                      /\ levels'[k].br_tests = levels[k].br_tests
                   \/ /\ levels'[k].br_tests = levels[k].br_tests + 1
                      /\ levels'[k].bl_tests = levels[k].bl_tests ]_vars
    /\ [][ ExecuteStep =>
             /\ \A k \in (DOMAIN levels) \ Achieved :
                   /\ levels'[k] = levels[k]
                   /\ (k \in to_gain') = (k \in to_gain)
                   /\ (k \in to_lose') = (k \in to_lose)
             /\ \A z \in Range(affected') :
                   \E k \in Achieved : LevelTable[k].zone_id = z ]_vars
    /\ [][ pc \notin {"levels", "execute"} =>
             /\ levels' = levels /\ to_gain' = to_gain /\ to_lose' = to_lose ]_vars

\* A bar rising from 1 to 3 gained level 2 of the consolidation zone and
\* retested level 3 of the mth zone from below: the level stays in to_lose
\* and only the consolidation zone is affected.
C12_Witness ==
    /\ pc = "store_bar"
    /\ levels[3].bl_tests = 1 /\ levels[3].br_tests = 0
    /\ levels[3].gains = 0 /\ levels[3].losses = 0
    /\ 3 \in to_lose
    /\ achieved.gained = <<2>>
    /\ affected = <<ZC>>

\* The level writes queued on a pipeline for the level k.
LevelWritesFor(ws, k) ==
    {i \in 1..Len(ws) : ws[i].op = "level" /\ ws[i].key = k}

\* C13: the lost and the gained list of a bar are disjoint and name no level
\* twice, the batch holds at most one record write for a level, and the
\* batch adds at most one event to a level's counters.
C13_GainedLostDisjoint ==
    /\ [](/\ Range(achieved.lost) \cap Range(achieved.gained) = {}
          /\ Cardinality(Range(achieved.lost)) = Len(achieved.lost)
          /\ Cardinality(Range(achieved.gained)) = Len(achieved.gained))
    /\ [](\A k \in DOMAIN levels : Cardinality(LevelWritesFor(pipe, k)) <= 1)
    /\ [][ ExecuteStep =>
             \A k \in DOMAIN levels :
                levels'[k].gains + levels'[k].losses
                   <= levels[k].gains + levels[k].losses + 1 ]_vars

\* Level 3 was gained by the first bar and lost by the second.
C13_Witness ==
    /\ pc = "store_bar"
    /\ levels[3].gains = 1 /\ levels[3].last_gain = 1
    /\ levels[3].losses = 1 /\ levels[3].last_loss = 2

Touches(b, k) == b.low <= LevelTable[k].value /\ LevelTable[k].value <= b.high

C16_AffectedZonesExact ==
    /\ [][ ExecuteStep =>
             /\ Range(affected') = {LevelTable[k].zone_id : k \in Achieved}
             /\ Len(affected') = Cardinality(Range(affected')) ]_vars
    /\ [][ pc = "store_bar" =>
             /\ affected' = affected
             /\ [id |-> bar_id(bar), achievements |-> affected] \in bars_db' ]_vars
    /\ [](pc \in {"store_bar", "zones", "snapshot", "produce"} =>
             /\ Range(affected) = {LevelTable[k].zone_id : k \in Achieved}
             /\ Len(affected) = Cardinality(Range(affected)))

\* One bar gained the levels 2 and 4 of the consolidation zone: the zone is
\* listed once.
C16_Witness ==
    /\ pc = "zones"
    /\ Range(achieved.gained) = {2, 4}
    /\ achieved.lost = <<>>
    /\ affected = <<ZC>>
    /\ [id |-> bar_id(bar), achievements |-> <<ZC>>] \in bars_db

\* The batch moved the achieved level k as its policy asks.
MovedByPolicy(k) ==
    /\ (k \in Range(achieved.gained)
          /\ should_stop_tracking_gains(k, levels'[k]))
          => k \in to_lose' \ to_gain'
    /\ (k \in Range(achieved.lost)
          /\ should_stop_tracking_losses(k, levels'[k]))
          => k \in to_gain' \ to_lose'

BreakoutFields(z) ==
    <<z.direction, z.broken_level, z.level_lost, z.level_lost_time>>

\* C18 (as claimed): once the breakout fields of the consolidation zone are
\* set, no later step changes them.
C18_AsClaimed ==
    [][ (ZC \in DOMAIN zones /\ zones[ZC].level_lost = 1)
           => BreakoutFields(zones'[ZC]) = BreakoutFields(zones[ZC]) ]_vars

\* The levels of the consolidation zone that the bar lost.
LostOf(zid) == {k \in Range(achieved.lost) : LevelTable[k].zone_id = zid}

Confirmed(zid) == zid \in DOMAIN zones /\ zones[zid].completion = "confirmed"

\* C19: while the consolidation zone is missing, forming or complete, a
\* loss of its levels queues no zone write and the batch leaves every zone
\* record as it is and creates none, while each lost level gets its loss;
\* a batch changes a zone record only if the zone is a confirmed
\* consolidation zone of which the bar lost block_zero or block_one.
C19_BreakoutOnlyWhenConfirmed ==
    /\ [](~Confirmed(ZC) => \A i \in 1..Len(pipe) : pipe[i].op # "zone")
    /\ [][ ExecuteStep =>
             /\ DOMAIN zones' = DOMAIN zones
             /\ ~Confirmed(ZC) => zones' = zones
             /\ \A k \in Range(achieved.lost) :
                   /\ levels'[k].losses = levels[k].losses + 1
                   /\ levels'[k].last_loss = bar.time
             /\ \A z \in DOMAIN zones :
                   zones'[z] # zones[z] =>
                      /\ Confirmed(z)
                      /\ zones[z].type = "consolidation"
                      /\ zones'[z].completion = zones[z].completion
                      /\ \E k \in LostOf(z) :
                            LevelTable[k].name \in {"block_zero", "block_one"}
           ]_vars

\* Level 1 (block_one) of the still forming consolidation zone was lost:
\* the loss is on the level, the zone is as it was.
C19_Witness ==
    /\ pc = "store_bar"
    /\ ZC \in DOMAIN zones
    /\ zones[ZC] = NewZone("consolidation", 1, "forming")
    /\ 1 \in Range(achieved.lost)
    /\ levels[1].losses = 1

\* C20: the batch of a bar that lost block_zero of the confirmed
\* consolidation zone leaves direction 0 and broken_level 'support', one
\* that lost block_one leaves direction 1 and 'resistance'; both leave
\* level_lost 1 and the bar's time as level_lost_time.
C20_BreakoutDirection ==
    [][ (ExecuteStep /\ Confirmed(ZC)) =>
          \A k \in LostOf(ZC) :
             /\ LevelTable[k].name = "block_zero" =>
                   BreakoutFields(zones'[ZC]) = <<0, "support", 1, bar.time>>
             /\ LevelTable[k].name = "block_one" =>
                   BreakoutFields(zones'[ZC]) = <<1, "resistance", 1, bar.time>>
      ]_vars

\* The second bar lost block_zero of the confirmed consolidation zone.
C20_Witness ==
    /\ pc = "store_bar"
    /\ bar.time = 2
    /\ 2 \in Range(achieved.lost)
    /\ ZC \in DOMAIN zones
    /\ BreakoutFields(zones[ZC]) = <<0, "support", 1, 2>>
    /\ zones[ZC].completion = "confirmed"

\* ------------------------------------------------------------------------
\* Properties of the zone completion engine
\* ------------------------------------------------------------------------
\* The boundary levels (block_zero, block_one) of the zone among the levels
\* the bar lost.
BoundaryLost(zid, ach) ==
    {k \in Range(ach.lost) :
        /\ LevelTable[k].zone_id = zid
        /\ LevelTable[k].name \in {"block_zero", "block_one"}}

\* C21: a bar whose events on a consolidation zone are gains of its levels
\* or the loss of its block_half queues no write of the zone, and no step of
\* its processing changes the zone record, however often such bars come.
C21_NoTransitionNoEffect ==
    /\ [][ IdentifyStep =>
             \A i \in 1..Len(pipe') :
                (pipe'[i].op = "zone" /\ IsConsolidationId(pipe'[i].key))
                   => BoundaryLost(pipe'[i].key, achieved') # {} ]_vars
    /\ [][ \A zid \in DOMAIN zones :
             (IsConsolidationId(zid) /\ BoundaryLost(zid, achieved) = {})
                => /\ zid \in DOMAIN zones'
                   /\ zones'[zid] = zones[zid] ]_vars

\* The confirmed consolidation zone has lost its block_half twice and
\* gained its block_one, and its record is as it was registered.
C21_Witness ==
    /\ pc = "produce"
    /\ levels[4].losses = 2
    /\ levels[1].gains = 1
    /\ ZC \in Range(affected)
    /\ ZC \in DOMAIN zones
    /\ zones[ZC] = NewZone("consolidation", 1, "confirmed")

\* This step is the zone update of the bar.
ZoneUpdateStep == pc = "zones" /\ pc' # "zones"

\* The names of the blocks of the zone that the bar lost.
LostBlocks(zid) == {LevelTable[k].name : k \in LostOf(zid)}

\* The zone becomes complete in this step.
Completes(zid) ==
    /\ zones[zid].completion # "complete"
    /\ zones'[zid].completion = "complete"

\* C22: an mth zone becomes complete in the zone update of a bar that lost
\* its block_one if the zone is bullish, its block_zero if it is bearish,
\* and in no other step: no gain and no loss of another level completes it,
\* and nothing else of its record changes.
C22_MthCompletesOnOppositeBoundary ==
    [][ \A zid \in DOMAIN zones : zones[zid].type = "mth" =>
          /\ Completes(zid) <=>
                /\ ZoneUpdateStep
                /\ zones[zid].completion # "complete"
                /\ \/ zones[zid].direction = 1 /\ "block_one" \in LostBlocks(zid)
                   \/ zones[zid].direction = 0 /\ "block_zero" \in LostBlocks(zid)
          /\ zones'[zid] = [zones[zid] EXCEPT
                               !.completion = zones'[zid].completion]
          /\ zones[zid].completion = "complete"
                => zones'[zid].completion = "complete" ]_vars

\* A bearish mth zone lost its block_one in the first bar and stayed
\* incomplete, the second bar lost its block_zero and completed it.
C22_Witness ==
    /\ pc = "snapshot"
    /\ ZM \in DOMAIN zones
    /\ zones[ZM].direction = 0
    /\ zones[ZM].completion = "complete"
    /\ levels[5].last_loss = bar.time
    /\ levels[3].losses = 1
    /\ levels[3].last_loss < bar.time

\* A block of the zone other than the named one has a loss on its record.
OtherBlockLost(zid, name) ==
    \E k \in DOMAIN levels :
        /\ LevelTable[k].zone_id = zid
        /\ LevelTable[k].name # name
        /\ levels[k].losses > 0

\* C23: an origin zone becomes complete in the zone update of a bar that
\* lost its block_one if the zone is bullish, its block_zero if it is
\* bearish, provided no other block of the zone was lost before; in no other
\* step does it become complete, and once another block was lost first the
\* zone stays incomplete.
C23_OriginCompletesWhenOppositeFirst ==
    [][ \A zid \in DOMAIN zones : zones[zid].type = "origin" =>
          /\ Completes(zid) <=>
                /\ ZoneUpdateStep
                /\ zones[zid].completion # "complete"
                /\ \/ /\ zones[zid].direction = 1
                      /\ "block_one" \in LostBlocks(zid)
                      /\ ~OtherBlockLost(zid, "block_one")
                   \/ /\ zones[zid].direction = 0
                      /\ "block_zero" \in LostBlocks(zid)
                      /\ ~OtherBlockLost(zid, "block_zero")
          /\ zones'[zid] = [zones[zid] EXCEPT
                               !.completion = zones'[zid].completion]
          /\ zones[zid].completion = "complete"
                => zones'[zid].completion = "complete" ]_vars

\* A bullish origin zone lost its block_zero in the first bar and its
\* block_one in the second: it is still incomplete after the zone update.
C23_Witness ==
    /\ pc = "snapshot"
    /\ ZO \in DOMAIN zones
    /\ zones[ZO].direction = 1
    /\ zones[ZO].completion = "incomplete"
    /\ levels[6].last_loss = bar.time
    /\ levels[7].losses = 1
    /\ levels[7].last_loss < bar.time

\* This step is the snapshot decision of the bar.
SnapshotStep == pc = "snapshot" /\ pc' # "snapshot"

\* The snapshot entries logged for the bar b.
SnapshotsOf(b) == {e \in snapshots : e.bar = bar_id(b)}

\* C24: a bar without affected zone ids has no modified levels and the
\* other way round; its zone update reads and writes no zone and its
\* snapshot step logs nothing; a snapshot is logged in the snapshot step of
\* exactly the bars with a modified level or a fetched zone, one entry that
\* carries the bar's id, and in no other step.
C24_EmptyBarSkipsZonesAndSnapshot ==
    /\ [](pc \in {"store_bar", "zones", "snapshot", "produce"}
             => (affected = <<>> <=> modified = {}))
    /\ [][ ZoneUpdateStep /\ affected = <<>>
             => /\ modified_zones(affected, zones) = {}
                /\ zones' = zones /\ snapshots' = snapshots ]_vars
    /\ [][ SnapshotStep =>
             /\ (affected = <<>> /\ modified = {}) => snapshots' = snapshots
             /\ (modified # {} \/ Range(affected) \cap DOMAIN zones # {})
                   => /\ SnapshotsOf(bar) = {}
                      /\ Cardinality(SnapshotsOf(bar)') = 1
                      /\ snapshots \subseteq snapshots'
                      /\ Cardinality(snapshots') = Cardinality(snapshots) + 1 ]_vars
    /\ [][ snapshots' # snapshots => SnapshotStep ]_vars

\* The first bar crossed a level and was logged; the second crossed none,
\* went through the zone and snapshot steps and was not logged.
C24_Witness ==
    /\ pc = "produce"
    /\ bar.time = 2
    /\ affected = <<>>
    /\ modified = {}
    /\ SnapshotsOf(bar) = {}
    /\ Cardinality(snapshots) = 1

\* ------------------------------------------------------------------------
\* Properties of the notifications the wait ignores
\* ------------------------------------------------------------------------
\* A payload that is not a bar id: fewer than four parts, or a time part
\* that is no integer. The reset sentinel is a payload of its own.
Malformed(d) == d # PIPELINE_RESET /\ (Len(d) < 4 \/ ~IsInt(d[4]))

\* The read consumed the message and the wait goes on as it was: no outcome,
\* no return, no exception, no time passed, back to the top of the loop.
StaysWaiting ==
    /\ pc' = "sync_top"
    /\ outcome' = "WAITING"
    /\ ret' = ret
    /\ stream' = stream
    /\ ~crashed'
    /\ elapsed' = elapsed
    /\ UNCHANGED <<storeVars, out, mode>>

NonMatching(d, b) ==
    /\ d # bar_id(b)
    /\ d # PIPELINE_RESET
    /\ Len(d) >= 4
    /\ IsInt(d[4])
    /\ \/ d[1] # Symbol
       \/ d[2] # Timeframe
       \/ int(d[4]) <= b.time

\* C28: while the wait for bar B is WAITING, a read of a notification that
\* is neither B's id nor the reset sentinel and names another symbol,
\* another timeframe or B's partition with a time not after B's never ends
\* the wait: the outcome is neither CONFIRMED nor STALE, and the message is
\* consumed and dropped.
C28_NonMatchingDropped ==
    [][ ( /\ pc = "sync_poll"
          /\ channel # <<>>
          /\ Head(channel).type = "message"
          /\ NonMatching(Head(channel).data, bar)
          /\ channel' = Tail(channel) )
        => StaysWaiting /\ outcome' \notin {"CONFIRMED", "STALE"} ]_vars

\* The wait for the first bar has read the late confirmation of the bar
\* before it, the equal-time id and the two confirmations of other
\* partitions, and still waits.
C28_Witness ==
    /\ pc = "sync_top"
    /\ outcome = "WAITING"
    /\ bar = FeedBar(1)
    /\ channel = SubSeq(Backlog(bar), 6, 8)

\* ------------------------------------------------------------------------
\* Properties of the fixture generators
\* ------------------------------------------------------------------------
Last(s) == s[Len(s)]

\* The bars of the returned sequence before its last one.
Earlier(s) == {s[i] : i \in 1..(Len(s) - 1)}

\* C26 (as claimed): the last bar of create_hh_pattern reaches higher than
\* every earlier bar of the sequence, and the last bar of create_ll_pattern
\* lower than every earlier one.
C26_AsClaimed ==
    /\ fixture.call = "create_hh_pattern"
          => \A b \in Earlier(fixture.bars) : Last(fixture.bars).high > b.high
    /\ fixture.call = "create_ll_pattern"
          => \A b \in Earlier(fixture.bars) : Last(fixture.bars).low < b.low

\* The level whose loss completes the returned zone.
CompletingLevel(zone) ==
    IF zone.direction = 1 THEN zone.block_one ELSE zone.block_zero

\* The direction in which the returned bars trend.
CrossDirection(zone) ==
    IF zone.type = "mth" THEN zone.direction ELSE 1 - zone.direction

\* The bar has the level within its range and closes beyond it.
Crosses(b, zone) ==
    /\ b.low <= CompletingLevel(zone)
    /\ CompletingLevel(zone) <= b.high
    /\ IF CrossDirection(zone) = 1 THEN b.close > CompletingLevel(zone)
       ELSE b.close < CompletingLevel(zone)

\* C27 (as claimed): one of the bars create_zone_completion_sequence returns
\* crosses the completing level of the zone it returns.
C27_AsClaimed ==
    fixture.call = "create_zone_completion_sequence"
       => \E i \in 1..Len(fixture.bars) : Crosses(fixture.bars[i], fixture.zone)

\* C29: the wait reads the ingestion mode only in a read that returns no
\* message after a full polling interval: only such a step produces
\* MODE_INTERRUPTED, and a read that returns a message of any kind never
\* does, whatever the mode is; with the mode paused or stopped a wait that
\* keeps receiving messages ends by another outcome.
C29_ModeReadOnlyOnEmptyPoll ==
    [][ /\ (outcome # "MODE_INTERRUPTED" /\ outcome' = "MODE_INTERRUPTED")
            => /\ pc = "sync_poll"
               /\ channel = <<>>
               /\ channel' = <<>>
               /\ elapsed' = elapsed + SYNC_TIMEOUT_SECONDS
               /\ poll_interrupts(mode)
        /\ (pc = "sync_poll" /\ channel # <<>> /\ channel' = Tail(channel))
            => /\ outcome' # "MODE_INTERRUPTED"
               /\ elapsed' = elapsed
               /\ poll_interrupts(mode) /\ pc' = "sync_top"
                    => outcome' = "WAITING" ]_vars

\* The wait ended at the ceiling while the mode was paused or stopped: the
\* mode was set during a read that then returned a message, so the loop
\* went past the mode check to the ceiling test.
C29_Witness ==
    /\ pc = "fail_drain"
    /\ outcome = "TIMED_OUT"
    /\ poll_interrupts(mode)
    /\ elapsed > MAX_SYNC_WAIT_SECONDS

\* The bar time an entry of the output stream carries in its id.
OutTime(i) == int(out[i].id[4])

\* The number of entries of the output stream that carry the bar of time t.
TimesForwarded(t) == Cardinality({i \in DOMAIN out : OutTime(i) = t})

\* The bars the consumer has been handed so far, the one in hand included.
Consumed == 1..(MaxBars - Len(stream) + (IF pc = "idle" THEN 0 ELSE 1))

\* C30: the output stream holds the bars in the order they were consumed,
\* each at most once; a waiting worker awaits the one bar it forwarded last
\* and forwards nothing more; a bar skipped at the mode gate is never
\* forwarded, and a bar that passed the gate is, once process_bar has
\* returned from it, on the output stream exactly once, with or without
\* crossings.
C30_ForwardedOnceInOrder ==
    /\ [](\A i, j \in DOMAIN out : i < j => OutTime(i) < OutTime(j))
    /\ [](\A i \in DOMAIN out : OutTime(i) \in Consumed)
    /\ [](Waiting => out # <<>> /\ Last(out).id = bar_id(bar))
    /\ [][Waiting => out' = out]_vars
    /\ [][ConsumeStep /\ pc' = "idle"
            => /\ out' = out
               /\ \A i \in DOMAIN out : OutTime(i) # bar'.time]_vars
    /\ [](\A t \in 1..(MaxBars - Len(stream)) :
             pc = "idle" \/ t # bar.time
               => TimesForwarded(t) = IF mutRuns[t] > 0 THEN 1 ELSE 0)

\* The first bar was skipped at the gate and is not on the output stream;
\* the second bar passed the gate, had no crossing, was forwarded and
\* process_bar has returned from it.
C30_Witness ==
    /\ pc = "idle"
    /\ Len(stream) = MaxBars - 2
    /\ mutRuns[1] = 0
    /\ mutRuns[2] = 1
    /\ Len(out) = 1
    /\ out[1].id = bar_id(FeedBar(2))
    /\ out[1].achievements = <<>>

\* ------------------------------------------------------------------------
\* Further properties of the breakout handler, the mode and the drain
\* ------------------------------------------------------------------------
\* The command queued just before the i-th one records the loss of a
\* boundary level of the zone that the i-th command writes, at the time the
\* zone record carries as level_lost_time.
QueuedWithItsLoss(i) ==
    /\ i > 1
    /\ pipe[i - 1].op = "level"
    /\ LevelTable[pipe[i - 1].key].zone_id = pipe[i].key
    /\ LevelTable[pipe[i - 1].key].name \in {"block_zero", "block_one"}
    /\ pipe[i - 1].val.losses = levels[pipe[i - 1].key].losses + 1
    /\ pipe[i - 1].val.last_loss = pipe[i].val.level_lost_time

\* C31: the breakout handler leaves the completion of the consolidation
\* zone as it is, so a zone with a recorded breakout (level_lost = 1) is
\* still 'confirmed'; the zone write is queued on the batch right after the
\* loss of the level that triggered it, and the batch makes the breakout
\* and that loss visible in one step.
C31_BreakoutKeepsCompletion ==
    /\ [](\A z \in DOMAIN zones :
             zones[z].type = "consolidation" /\ zones[z].level_lost = 1
                => zones[z].completion = "confirmed")
    /\ [](\A i \in 1..Len(pipe) :
             pipe[i].op = "zone"
                => /\ pipe[i].val.completion = zones[pipe[i].key].completion
                   /\ pipe[i].val.level_lost = 1
                   /\ QueuedWithItsLoss(i))
    /\ [][ \A z \in DOMAIN zones :
              zones[z].type = "consolidation" =>
              /\ zones'[z].completion = zones[z].completion
              /\ BreakoutFields(zones'[z]) # BreakoutFields(zones[z])
                    => \E k \in BoundaryLost(z, achieved) :
                          /\ levels'[k].losses = levels[k].losses + 1
                          /\ levels'[k].last_loss = zones'[z].level_lost_time
       ]_vars

\* The batch of the first bar has recorded the loss of block_one of the
\* confirmed consolidation zone and the breakout of the zone, which is
\* still 'confirmed'.
C31_Witness ==
    /\ pc = "store_bar"
    /\ bar.time = 1
    /\ 1 \in Range(achieved.lost)
    /\ levels[1].losses = 1
    /\ ZC \in DOMAIN zones
    /\ zones[ZC].level_lost = 1
    /\ zones[ZC].level_lost_time = levels[1].last_loss
    /\ zones[ZC].completion = "confirmed"

\* This step is a read of the wait that returns no message.
EmptyPoll ==
    /\ pc = "sync_poll"
    /\ channel = <<>>
    /\ channel' = <<>>
    /\ elapsed' = elapsed + SYNC_TIMEOUT_SECONDS

\* C32: a status record without a mode value reads as 'stopped': a bar
\* consumed under it is skipped at the gate, process_bar returning False
\* with no write to the store and nothing forwarded, and a poll of the wait
\* that finds it ends the wait as MODE_INTERRUPTED.
C32_MissingModeIsStopped ==
    /\ [][ ConsumeStep /\ mode = "nil"
             => /\ pc' = "idle"
                /\ ret' = "False"
                /\ stream' = Tail(stream)
                /\ UNCHANGED <<storeVars, out, pipe, channel>> ]_vars
    /\ [][ EmptyPoll /\ mode = "nil"
             => outcome' = "MODE_INTERRUPTED" /\ pc' = "fail_drain" ]_vars

\* The first bar went through the stage; the second was consumed under a
\* record without a mode and skipped at the gate: process_bar returned
\* False, and nothing of the bar is in the store or on the output stream.
C32_Witness ==
    /\ pc = "idle"
    /\ mode = "nil"
    /\ bar = FeedBar(2)
    /\ ret = "False"
    /\ outcome = "NONE"
    /\ mutRuns[1] = 1
    /\ mutRuns[2] = 0
    /\ Len(out) = 1
    /\ ~Forwarded(bar)
    /\ \A e \in bars_db : e.id # bar_id(bar)

\* C33: clear_stale_messages returns only from a read that found the
\* channel empty; a read that returns a notification of any kind discards
\* it and goes on, changing neither the store, the output stream nor the
\* outcome of the wait, however long the wait has lasted and however many
\* notifications it has discarded already.
C33_DrainUntilEmpty ==
    /\ [][ (pc \in {"reset_drain", "fail_drain"} /\ pc' # pc)
             => channel = <<>> /\ channel' = <<>> ]_vars
    /\ [][ ( /\ pc \in {"reset_drain", "fail_drain"}
             /\ channel # <<>>
             /\ channel' = Tail(channel) )
             => /\ pc' = pc
                /\ discarded' = discarded + 1
                /\ outcome' = outcome
                /\ ret' = ret
                /\ stream' = stream
                /\ UNCHANGED <<storeVars, out, elapsed>> ]_vars

\* The wait ended at the hard ceiling; its drain has discarded a
\* notification that arrived after that and has another one to read.
C33_Witness ==
    /\ pc = "fail_drain"
    /\ outcome = "TIMED_OUT"
    /\ elapsed > MAX_SYNC_WAIT_SECONDS
    /\ discarded >= 1
    /\ channel # <<>>

PatternGenerators ==
    {"create_hh_pattern", "create_ll_pattern", "create_lh_pattern",
     "create_origin_pattern", "create_gap_sequence"}

\* The times of the bars increase along the sequence.
TimesIncrease(bars) ==
    \A i, j \in DOMAIN bars : i < j => bars[i].time < bars[j].time

\* Every bar carries the id '{symbol}:{timeframe}:bar:{time}' of its fields.
IdsWellFormed(bars) ==
    \A i \in DOMAIN bars :
       bars[i].id = <<bars[i].symbol, bars[i].timeframe, "bar",
                      ToString(bars[i].time)>>

\* The number of bar intervals of the timeframe without a bar between the
\* third and the fourth bar of the sequence is n.
MissingIntervals(bars, timeframe, n) ==
    bars[4].time - bars[3].time = (n + 1) * delta_ms(timeframe)

\* C34 (as claimed): for every timeframe the sequence a pattern generator
\* returns has strictly increasing bar times and well-formed ids, and the
\* gap sequence misses exactly two bar intervals between its third and its
\* fourth bar.
C34_AsClaimed ==
    /\ fixture.call \in PatternGenerators
          => TimesIncrease(fixture.bars) /\ IdsWellFormed(fixture.bars)
    /\ fixture.call = "create_gap_sequence"
          => MissingIntervals(fixture.bars, fixture.args[2], 2)

\* ------------------------------------------------------------------------
\* Properties of the variant of src/main_streams.py
\* ------------------------------------------------------------------------
\* C35: in the variant of main_streams.py the wait is left only by reading
\* a notification equal to the bar's id: a read of a reset sentinel, of a
\* later bar's confirmation or of anything else, a blocked read, the mode
\* and the time that has passed leave it waiting, with no bound; and every
\* consumed bar goes through the mutation steps and is forwarded whatever
\* the ingestion mode.
C35_StreamsWaitsForItsIdOnly ==
    /\ [][ (pc = "sync_top" /\ pc' # "sync_top")
             => /\ channel # <<>>
                /\ Head(channel) = Msg(bar_id(bar))
                /\ channel' = Tail(channel)
                /\ outcome' = "CONFIRMED" ]_vars
    /\ [](outcome \notin Interrupted)
    /\ [][ (pc = "idle" /\ stream # <<>> /\ bar' # bar)
             => pc' = "levels" /\ bar' = Head(stream) /\ stream' = stream ]_vars
    /\ [](\A t \in 1..(MaxBars - Len(stream)) :
             /\ mutRuns[t] = 1
             /\ \E i \in DOMAIN out : out[i].id = bar_id(FeedBar(t)))

\* The first bar was consumed and forwarded although the mode is paused or
\* stopped; its wait has read the reset sentinel and the later bar's
\* confirmation that were buffered, nothing else was published, no
\* confirmation of the bar exists and the wait is still on after more than
\* MAX_SYNC_WAIT_SECONDS.
C35_Witness ==
    /\ pc = "sync_top"
    /\ bar = FeedBar(1)
    /\ gate_skips(mode)
    /\ Forwarded(bar)
    /\ mutRuns[1] = 1
    /\ channel = <<>>
    /\ pubCount = 0
    /\ ~confPub
    /\ outcome = "WAITING"
    /\ elapsed > MAX_SYNC_WAIT_SECONDS

====
